---- MODULE Spec2Model ----
(***************************************************************************)
(* The debate workflow of orchestrator.py: DebateOrchestrator._call_model  *)
(* (one model call with its retry loop) and                                *)
(* DebateOrchestrator.conduct_debate (two concurrent round-1 calls, then   *)
(* round2_a, round2_b and the chair, one after the other), with the prompt *)
(* builders of prompts.py.                                                 *)
(*                                                                         *)
(* A Python string is a sequence of tokens: literal pieces of the          *)
(* f-strings are one token each, a text coming from outside (the query, a  *)
(* model's answer, an error text) is a sequence of tokens of its own.      *)
(* Concatenation is \o and `x in s` is Contains(s, x).  The value None is  *)
(* the distinguished NoneValue, and f"{None}" is the text "None".          *)
(***************************************************************************)
EXTENDS Integers, Sequences, FiniteSets, TLC

VARIABLES
    pc,          \* where conduct_debate stands
    user_query,  \* the argument of conduct_debate
    calls,       \* one _call_model coroutine per (round, participant)
    responses,   \* the local dict `responses` of conduct_debate
    session,     \* the aiohttp.ClientSession of this debate
    done_order,  \* the round-1 coroutines in the order they finished
    returned,    \* what conduct_debate returned: <<>> before, then <<dict>>
    raised,      \* str() of the exception conduct_debate raised, "" before
    timer,       \* time the outstanding attempt of each call has been pending
    attempt_log, \* the kinds of the failed attempts of each unfinished or failed call
    app_pc,      \* app.py: where LLMCouncil.conduct_debate stands
    app_calls,   \* app.py: the round-1 coroutines of LLMCouncil._call_model
    env,             \* os.environ as os.getenv sees it after load_dotenv()
    config_instance, \* config.py: _config_instance, <<>> for None
    self_config,     \* self.config of the DebateOrchestrator constructed last, <<>> if none
    config_raised,   \* str() of the ValueError the last config or constructor call raised
    call_params,     \* the arguments each _call_model coroutine was created with, <<>> if none
    sent,            \* the request each call posted last, <<>> if none
    format_seq,      \* the parity of the number of format_debate_output calls
    format_call,     \* the last format_debate_output call: arguments and outcome
    debates,         \* two conduct_debate invocations on one orchestrator: each one's progress
    frames,          \* the dict `responses` of each invocation
    ui_pc,           \* ui.py: where the generator process_query stands
    ui_query,        \* ui.py: the user_query process_query was called with
    yielded,         \* ui.py: the messages process_query has yielded
    submit_pc,       \* ui.py: where user_submit stands
    history_in,      \* ui.py: the history user_submit was called with
    history,         \* ui.py: the list user_submit appends to
    current_response, \* ui.py: the last response user_submit took from process_query
    retry_loop,      \* one call of _call_model(..., max_retries) with its loop variable
    council          \* app.py: one invocation of LLMCouncil.conduct_debate

debate_vars == <<pc, user_query, calls, responses, session, done_order, returned, raised>>

timed_vars == <<timer, attempt_log>>

app_vars == <<app_pc, app_calls>>

config_vars == <<env, config_instance, self_config, config_raised>>

request_vars == <<call_params, sent>>

format_vars == <<format_seq, format_call>>

overlap_vars == <<debates, frames>>

submit_vars == <<submit_pc, history_in, history, current_response>>

ui_vars == <<ui_pc, ui_query, yielded, submit_vars>>

loop_vars == <<retry_loop>>

council_vars == <<council>>

\* what the steps of DebateOrchestrator's debate leave alone
outside_debate ==
    <<timed_vars, app_vars, config_vars, request_vars, format_vars, overlap_vars, ui_vars,
      loop_vars, council_vars>>

\* what the steps of the timed debate leave alone
outside_timed == <<app_vars, config_vars, request_vars, format_vars, overlap_vars, ui_vars,
      loop_vars, council_vars>>

\* what the steps of app.py's LLMCouncil leave alone
outside_app ==
    <<debate_vars, timed_vars, config_vars, request_vars, format_vars, overlap_vars, ui_vars,
      loop_vars, council_vars>>

\* what the calls into config.py and the constructor leave alone
outside_config ==
    <<debate_vars, timed_vars, app_vars, request_vars, format_vars, overlap_vars, ui_vars,
      loop_vars, council_vars>>

\* what a debate that records its requests, and a configuration call made
\* during it, leave alone
outside_requests == <<timed_vars, app_vars, format_vars, overlap_vars, ui_vars,
      loop_vars, council_vars>>

\* what format_debate_output has no business with
outside_format ==
    <<debate_vars, timed_vars, app_vars, request_vars, overlap_vars, ui_vars, env, self_config,
      loop_vars, council_vars>>

\* what two invocations of conduct_debate leave alone
outside_overlap ==
    <<debate_vars, timed_vars, app_vars, config_vars, request_vars, format_vars, ui_vars,
      loop_vars, council_vars>>

\* what CouncilUI and the debate it runs leave alone
outside_ui ==
    <<timed_vars, app_vars, request_vars, format_vars, overlap_vars, loop_vars, council_vars>>

\* what one call of _call_model leaves alone
outside_loop ==
    <<debate_vars, timed_vars, app_vars, config_vars, request_vars, format_vars,
      overlap_vars, ui_vars, council_vars>>

\* what the debate of app.py's LLMCouncil, run after the orchestrator's,
\* leaves alone
outside_council ==
    <<debate_vars, timed_vars, app_vars, config_vars, request_vars, format_vars,
      overlap_vars, ui_vars, loop_vars>>

vars ==
    <<debate_vars, timed_vars, app_vars, config_vars, request_vars, format_vars,
      overlap_vars, ui_vars,
      loop_vars, council_vars>>

----------------------------------------------------------------------------
(* Bounds of the model.                                                    *)

NumQueries == 1
NumTexts == 1
NumErrTexts == 1

TokenPool == <<"x1", "x2", "x3", "x4">>

Queries == {<<"q", TokenPool[i]>> : i \in 1..NumQueries}

Texts == {<<"t", TokenPool[i]>> : i \in 1..NumTexts}

ErrTexts == {<<"e", TokenPool[i]>> : i \in 1..NumErrTexts}

----------------------------------------------------------------------------
(* Strings.                                                                *)

NoneValue == <<"<None>">>

EmptyStr == <<>>

\* str(x) as an f-string field formats it
Str(x) == IF x = NoneValue THEN <<"None">> ELSE x

\* Python's `x in s` for strings: x is a contiguous part of s
Contains(s, x) ==
    \E i \in 0..(Len(s) - Len(x)) :
        \A j \in 1..Len(x) : s[i + j] = x[j]

----------------------------------------------------------------------------
(* The five calls of one debate.                                           *)

R1A == "round1_member_a"
R1B == "round1_member_b"
R2A == "round2_member_a"
R2B == "round2_member_b"
R3C == "round3_chair"

Calls == {R1A, R1B, R2A, R2B, R3C}

Round1Calls == {R1A, R1B}

max_retries == 3

----------------------------------------------------------------------------
(* _call_model: one attempt's failure, and the exception of the last one.  *)

\* What can end an attempt other than a 200 response with a content:
\* the exception the try block of _call_model raises, with its str().
StatusCodes == {"500"}

TimeoutFailure == [kind |-> "timeout", text |-> EmptyStr]

StatusFailure(status, error_text) ==
    [kind |-> "status",
     text |-> <<"API returned status ", status, ": ">> \o error_text]

TransportFailure(e) == [kind |-> "transport", text |-> e]

MalformedFailure == [kind |-> "malformed", text |-> <<"'choices'">>]

NoFailure == [kind |-> "none", text |-> EmptyStr]

Failures ==
    {TimeoutFailure, MalformedFailure}
        \cup {StatusFailure(s, e) : s \in StatusCodes, e \in ErrTexts}
        \cup {TransportFailure(e) : e \in ErrTexts}

\* One query, one reply text and one failure of each kind, for the
\* specifications in which the texts make no difference.
OneQuery == <<"q", TokenPool[1]>>

OneText == <<"t", TokenPool[1]>>

OneErrText == <<"e", TokenPool[1]>>

OneFailurePerKind ==
    {TimeoutFailure, MalformedFailure, StatusFailure("500", OneErrText),
     TransportFailure(OneErrText)}

\* the exception raised when the last attempt fails
ExhaustedMessage(f) ==
    IF f.kind = "timeout"
    THEN <<"Model timed out after ", ToString(max_retries), " attempts">>
    ELSE <<"Model failed after ", ToString(max_retries), " attempts: ">> \o f.text

\* wait_time = 2 ** attempt
RECURSIVE Pow2(_)
Pow2(n) == IF n = 0 THEN 1 ELSE 2 * Pow2(n - 1)

wait_time(attempt) == Pow2(attempt)

\* Mutant of retries_left: the last attempt's failure is retried too.
retries_left_off_by_one(attempt) == attempt < max_retries

\* whether a failed attempt is followed by a sleep and another attempt
retries_left(attempt) == attempt < max_retries - 1

\* A coroutine of _call_model that has not been created.
NotCalled ==
    [phase |-> "none", attempt |-> 0, requests |-> 0, sleeps |-> <<>>,
     user_message |-> EmptyStr, result |-> EmptyStr,
     error |-> EmptyStr, last_failure |-> NoFailure]

\* The coroutine as asyncio.gather creates it: a task that has not run yet.
Scheduled(user_message) == [NotCalled EXCEPT !.phase = "ready", !.user_message = user_message]

\* The coroutine at its first session.post: attempt 0 is outstanding.
Posted(c) == [c EXCEPT !.phase = "inflight", !.requests = @ + 1]

\* The coroutine as an awaited call starts it: it runs to its first post.
Called(user_message) == Posted(Scheduled(user_message))

\* Mutant of Finished: the awaiting code goes on as soon as the call exists.
FinishedOnceStarted(c) == c.phase # "none"

\* Mutant of Finished: a call that raised never wakes the code awaiting it.
FinishedOnlyReturned(c) == c.phase = "returned"

Finished(c) == c.phase \in {"returned", "raised"}

\* Mutant of Runnable: round 1 awaits member A's call before it starts
\* member B's.
RunnableInTurn(c) ==
    CASE c = R1B -> calls[R1A].phase \in {"returned", "raised"}
      [] OTHER -> TRUE

\* The loop runs the tasks of gather in the order of its arguments: member
\* B's task takes its first step right after member A's, and no response
\* is processed before both have.
Runnable(c) ==
    CASE c = R1B -> calls[R1A].phase # "ready"
      [] c = R1A -> calls[c].phase = "ready" \/ calls[R1B].phase # "ready"
      [] OTHER -> TRUE

\* for attempt in range(max_retries): session.post(...) of attempt 0
Post(c) ==
    /\ calls[c].phase = "ready"
    /\ Runnable(c)
    /\ calls' = [calls EXCEPT ![c] = Posted(@)]
    /\ done_order' = done_order
    /\ UNCHANGED <<pc, user_query, responses, session, returned, raised>>

FinishOrder(c) == IF c \in Round1Calls THEN Append(done_order, c) ELSE done_order

\* Mutant of Returned: the call sleeps once more before it returns.
ReturnedAfterSleep(c, content) ==
    [c EXCEPT !.phase = "returned", !.result = content,
              !.sleeps = Append(@, wait_time(c.attempt))]

\* return result["choices"][0]["message"]["content"]
Returned(c, content) == [c EXCEPT !.phase = "returned", !.result = content]

\* status 200: return result["choices"][0]["message"]["content"]
Respond200(c, content) ==
    /\ calls[c].phase = "inflight"
    /\ Runnable(c)
    /\ calls' = [calls EXCEPT ![c] = Returned(@, content)]
    /\ done_order' = FinishOrder(c)
    /\ UNCHANGED <<pc, user_query, responses, session, returned, raised>>

\* Mutant of AfterFailure: a failed attempt is always followed by another.
AfterFailureNeverGivesUp(c, f) ==
    [c EXCEPT !.phase = "sleeping", !.sleeps = Append(@, wait_time(c.attempt))]

\* Mutant of AfterFailure: a success response without the expected fields
\* is not retried, the call gives up at once.
AfterFailureMalformedFatal(c, f) ==
    IF retries_left(c.attempt) /\ f.kind # "malformed"
    THEN [c EXCEPT !.phase = "sleeping",
                   !.sleeps = Append(@, wait_time(c.attempt))]
    ELSE [c EXCEPT !.phase = "raised",
                   !.error = ExhaustedMessage(f),
                   !.last_failure = f]

\* the except clauses: sleep and go round the loop, or raise
AfterFailure(c, f) ==
    IF retries_left(c.attempt)
    THEN [c EXCEPT !.phase = "sleeping",
                   !.sleeps = Append(@, wait_time(c.attempt))]
    ELSE [c EXCEPT !.phase = "raised",
                   !.error = ExhaustedMessage(f),
                   !.last_failure = f]

AttemptFails(c, f) ==
    /\ calls[c].phase = "inflight"
    /\ Runnable(c)
    /\ calls' = [calls EXCEPT ![c] = AfterFailure(@, f)]
    /\ done_order' = IF retries_left(calls[c].attempt) THEN done_order ELSE FinishOrder(c)
    /\ UNCHANGED <<pc, user_query, responses, session, returned, raised>>

\* asyncio.sleep(wait_time) is over: the next attempt's session.post
BackoffElapsed(c) ==
    /\ calls[c].phase = "sleeping"
    /\ calls' = [calls EXCEPT ![c] =
                    [@ EXCEPT !.phase = "inflight",
                              !.attempt = @ + 1,
                              !.requests = @ + 1]]
    /\ UNCHANGED <<pc, user_query, responses, session, done_order, returned, raised>>

----------------------------------------------------------------------------
(* prompts.py: the user messages of rounds 2 and 3.                        *)

get_round2_prompt_for_member_a(query, member_b_response) ==
    <<"Original Query: ">> \o Str(query)
        \o <<"\n\nCouncil Member B's Analysis:\n">> \o Str(member_b_response)
        \o <<"\n\nNow provide your critique, counterarguments, or supporting arguments to Member B's analysis.">>

\* Mutant of get_round2_prompt_for_member_b: member A's critique is left
\* out and the initial analysis stands in its place.
round2_prompt_for_member_b_without_critique(query, member_a_initial, member_a_critique) ==
    <<"Original Query: ">> \o Str(query)
        \o <<"\n\nCouncil Member A's Initial Analysis:\n">> \o Str(member_a_initial)
        \o <<"\n\nCouncil Member A's Critique of Your Analysis:\n">> \o Str(member_a_initial)
        \o <<"\n\nNow respond: critique Member A's points and defend or refine your position.">>

get_round2_prompt_for_member_b(query, member_a_initial, member_a_critique) ==
    <<"Original Query: ">> \o Str(query)
        \o <<"\n\nCouncil Member A's Initial Analysis:\n">> \o Str(member_a_initial)
        \o <<"\n\nCouncil Member A's Critique of Your Analysis:\n">> \o Str(member_a_critique)
        \o <<"\n\nNow respond: critique Member A's points and defend or refine your position.">>

get_chair_synthesis_prompt(query, round1_member_a, round1_member_b, round2_member_a, round2_member_b) ==
    <<"Original Query: ">> \o Str(query)
        \o <<"\n\n=== FULL DEBATE TRANSCRIPT ===\n\nROUND 1 - Council Member A (Analytical):\n">>
        \o Str(round1_member_a)
        \o <<"\n\nROUND 1 - Council Member B (Critical):\n">> \o Str(round1_member_b)
        \o <<"\n\nROUND 2 - Member A's Critique:\n">> \o Str(round2_member_a)
        \o <<"\n\nROUND 2 - Member B's Response:\n">> \o Str(round2_member_b)
        \o <<"\n\n=== END TRANSCRIPT ===\n\nNow provide your structured final verdict following the format specified in your instructions.">>

----------------------------------------------------------------------------
(* conduct_debate.                                                         *)

EmptyResponses == [c \in Calls |-> EmptyStr]

\* str() of the TypeError of len(None) in the progress prints
LenOfNoneMessage == <<"object of type 'NoneType' has no len()">>

\* except Exception as e: raise Exception(f"Debate execution failed: {str(e)}")
DebateFailedMessage(e) == <<"Debate execution failed: ">> \o e

\* Mutant of AwaitRaises: the failure of an awaited call is swallowed.
AwaitSwallows(c) == FALSE

\* `await self._call_model(...)` raises what the call raised
AwaitRaises(c) == calls[c].phase = "raised"

\* Mutant of Fail: the except clause starts the debate again.
FailAndRestart(e) ==
    /\ pc' = "Idle"
    /\ raised' = <<"Debate execution failed: ">> \o e
    /\ session' = "closed"
    /\ returned' = returned

\* Mutant of Fail: the except clause hands the responses collected so far
\* to the caller.
FailWithPartialResult(e) ==
    /\ pc' = "Failed"
    /\ raised' = <<"Debate execution failed: ">> \o e
    /\ session' = "closed"
    /\ returned' = <<responses>>

\* Mutant of Fail: the exception leaves conduct_debate without closing the
\* session.
FailLeavesSessionOpen(e) ==
    /\ pc' = "Failed"
    /\ raised' = <<"Debate execution failed: ">> \o e
    /\ session' = session
    /\ returned' = returned

\* The except clause of conduct_debate, leaving the session's `async with`.
Fail(e) ==
    /\ pc' = "Failed"
    /\ raised' = DebateFailedMessage(e)
    /\ session' = "closed"
    /\ returned' = returned

\* conduct_debate up to `await asyncio.gather(...)`
ConductDebate(query) ==
    /\ pc = "Idle"
    /\ pc' = "Round1Running"
    /\ user_query' = query
    /\ responses' = EmptyResponses
    /\ session' = "open"
    /\ calls' = [calls EXCEPT ![R1A] = Scheduled(query), ![R1B] = Scheduled(query)]
    /\ UNCHANGED <<done_order, returned, raised>>

\* Mutant of Store: every assignment goes to the first key.
StoreUnderFirstKey(resp, c, text) == [resp EXCEPT ![R1A] = text]

\* responses[c] = text
Store(resp, c, text) == [resp EXCEPT ![c] = text]

\* Mutant of round1_result: the results are taken in the order the two
\* calls finished.
round1_result_as_completed(i) == calls[done_order[i + 1]].result

\* round1_results[i]: gather returns the results in the order of its
\* arguments, whichever call finished first
round1_result(i) == calls[<<R1A, R1B>>[i + 1]].result

\* Mutant of Round1Error: only member A's result is checked.
Round1ErrorOnlyFirst(results) ==
    IF results[R1A].phase = "raised" THEN R1A ELSE "none"

\* which result of gather the error check raises, if any
Round1Error(results) ==
    IF results[R1A].phase = "raised" THEN R1A
    ELSE IF results[R1B].phase = "raised" THEN R1B
    ELSE "none"

\* Mutant of gather_done: gather without return_exceptions, which raises
\* as soon as one of its tasks has raised.
gather_done_first_exception ==
    \/ \A c \in Round1Calls : Finished(calls[c])
    \/ \E c \in Round1Calls : calls[c].phase = "raised"

\* await asyncio.gather(..., return_exceptions=True) is over when each of
\* its tasks has returned or raised
gather_done == \A c \in Round1Calls : Finished(calls[c])

\* gather has both results: the error check, then round 2's first call
Round1Done ==
    /\ pc = "Round1Running"
    /\ gather_done
    /\ IF Round1Error(calls) # "none"
       THEN /\ Fail(calls[Round1Error(calls)].error)
            /\ UNCHANGED <<calls, responses>>
       ELSE /\ responses' = Store(Store(responses, R1A, round1_result(0)),
                                  R1B, round1_result(1))
            /\ IF responses'[R1A] = NoneValue \/ responses'[R1B] = NoneValue
               THEN /\ Fail(LenOfNoneMessage)
                    /\ UNCHANGED calls
               ELSE /\ pc' = "Round2AComputing"
                    /\ calls' = [calls EXCEPT ![R2A] =
                           Called(get_round2_prompt_for_member_a(
                                      user_query, responses'[R1B]))]
                    /\ UNCHANGED <<session, returned, raised>>
    /\ UNCHANGED <<user_query, done_order>>

\* round2_member_a's call is over: round2_member_b's call
Round2ADone ==
    /\ pc = "Round2AComputing"
    /\ Finished(calls[R2A])
    /\ IF AwaitRaises(R2A)
       THEN /\ Fail(calls[R2A].error)
            /\ UNCHANGED <<calls, responses>>
       ELSE /\ responses' = Store(responses, R2A, calls[R2A].result)
            /\ IF responses'[R2A] = NoneValue
               THEN /\ Fail(LenOfNoneMessage)
                    /\ UNCHANGED calls
               ELSE /\ pc' = "Round2BComputing"
                    /\ calls' = [calls EXCEPT ![R2B] =
                           Called(get_round2_prompt_for_member_b(
                                      user_query, responses'[R1A], responses'[R2A]))]
                    /\ UNCHANGED <<session, returned, raised>>
    /\ UNCHANGED <<user_query, done_order>>

\* round2_member_b's call is over: the chair's call
Round2BDone ==
    /\ pc = "Round2BComputing"
    /\ Finished(calls[R2B])
    /\ IF AwaitRaises(R2B)
       THEN /\ Fail(calls[R2B].error)
            /\ UNCHANGED <<calls, responses>>
       ELSE /\ responses' = Store(responses, R2B, calls[R2B].result)
            /\ IF responses'[R2B] = NoneValue
               THEN /\ Fail(LenOfNoneMessage)
                    /\ UNCHANGED calls
               ELSE /\ pc' = "Round3Computing"
                    /\ calls' = [calls EXCEPT ![R3C] =
                           Called(get_chair_synthesis_prompt(
                                      user_query, responses'[R1A], responses'[R1B],
                                      responses'[R2A], responses'[R2B]))]
                    /\ UNCHANGED <<session, returned, raised>>
    /\ UNCHANGED <<user_query, done_order>>

\* the chair's call is over: return responses
Round3Done ==
    /\ pc = "Round3Computing"
    /\ Finished(calls[R3C])
    /\ IF AwaitRaises(R3C)
       THEN /\ Fail(calls[R3C].error)
            /\ UNCHANGED <<calls, responses>>
       ELSE /\ responses' = Store(responses, R3C, calls[R3C].result)
            /\ IF responses'[R3C] = NoneValue
               THEN /\ Fail(LenOfNoneMessage)
                    /\ UNCHANGED calls
               ELSE /\ pc' = "Complete"
                    /\ returned' = <<responses'>>
                    /\ session' = "closed"
                    /\ UNCHANGED <<calls, raised>>
    /\ UNCHANGED <<user_query, done_order>>

----------------------------------------------------------------------------
(* config.py: CouncilConfig.from_env, validate, and the process-wide       *)
(* instance behind get_config() and reload_config().                      *)

\* The environments the model draws from: the required settings only, every
\* variable set to a value of its own, and environments with one setting
\* missing, empty, zero or not a number.
BaseEnv ==
    [AZURE_AI_PROJECT_ENDPOINT |-> <<"https://e1">>,
     AZURE_AI_API_KEY |-> <<"k1">>,
     MODEL_DEPLOYMENT_GPT41 |-> NoneValue,
     MODEL_DEPLOYMENT_DEEPSEEK |-> NoneValue,
     MODEL_DEPLOYMENT_GROK |-> NoneValue,
     TEMPERATURE_COUNCIL_MEMBERS |-> NoneValue,
     TEMPERATURE_CHAIR |-> NoneValue,
     AGENT_TIMEOUT |-> NoneValue]

OtherEnv ==
    [AZURE_AI_PROJECT_ENDPOINT |-> <<"https://e2">>,
     AZURE_AI_API_KEY |-> <<"k2">>,
     MODEL_DEPLOYMENT_GPT41 |-> <<"gpt-b">>,
     MODEL_DEPLOYMENT_DEEPSEEK |-> <<"deepseek-b">>,
     MODEL_DEPLOYMENT_GROK |-> <<"grok-b">>,
     TEMPERATURE_COUNCIL_MEMBERS |-> <<"0.2">>,
     TEMPERATURE_CHAIR |-> <<"0.9">>,
     AGENT_TIMEOUT |-> <<"30">>]

ValidEnvironments == {BaseEnv, OtherEnv}

Environments ==
    ValidEnvironments \cup
        {[BaseEnv EXCEPT !.AZURE_AI_PROJECT_ENDPOINT = NoneValue],
         [BaseEnv EXCEPT !.AZURE_AI_API_KEY = NoneValue],
         [BaseEnv EXCEPT !.MODEL_DEPLOYMENT_DEEPSEEK = EmptyStr],
         [BaseEnv EXCEPT !.AGENT_TIMEOUT = <<"0">>],
         [BaseEnv EXCEPT !.AGENT_TIMEOUT = <<"soon">>]}

\* os.getenv(name, default)
getenv(e, name, default) == IF e[name] = NoneValue THEN default ELSE e[name]

\* Python's truth value of an Optional[str]
truthy(x) == x # NoneValue /\ x # EmptyStr

\* int(s): the decimal numerals the environments hold; any other text
\* makes int() raise ValueError
IntNumerals == {<<"0">>, <<"30">>, <<"60">>}

int(s) == CASE s = <<"0">> -> 0 [] s = <<"30">> -> 30 [] s = <<"60">> -> 60

\* float(s), in tenths
FloatNumerals == {<<"0.2">>, <<"0.3">>, <<"0.7">>, <<"0.9">>}

float(s) ==
    CASE s = <<"0.2">> -> 2 [] s = <<"0.3">> -> 3 [] s = <<"0.7">> -> 7 [] s = <<"0.9">> -> 9

ModelConfig(deployment_name, temperature, role, display_name) ==
    [deployment_name |-> deployment_name, temperature |-> temperature,
     role |-> role, display_name |-> display_name]

\* CouncilConfig.from_env() when it raises nothing
CouncilConfig(e) ==
    LET temp_council == float(getenv(e, "TEMPERATURE_COUNCIL_MEMBERS", <<"0.7">>))
        temp_chair == float(getenv(e, "TEMPERATURE_CHAIR", <<"0.3">>))
        api_key == e["AZURE_AI_API_KEY"]
    IN  [project_endpoint |-> e["AZURE_AI_PROJECT_ENDPOINT"],
         api_key |-> IF truthy(api_key) THEN api_key ELSE NoneValue,
         member_a |-> ModelConfig(getenv(e, "MODEL_DEPLOYMENT_GPT41", <<"gpt-4.1">>),
                                  temp_council, "analytical",
                                  <<"Council Member A (Analytical - GPT-4.1)">>),
         member_b |-> ModelConfig(getenv(e, "MODEL_DEPLOYMENT_DEEPSEEK", <<"DeepSeek-V3.1">>),
                                  temp_council, "critical",
                                  <<"Council Member B (Critical - DeepSeek-V3.1)">>),
         chair |-> ModelConfig(getenv(e, "MODEL_DEPLOYMENT_GROK", <<"grok-3">>),
                               temp_chair, "chair", <<"Chair (Grok-3)">>),
         timeout |-> int(getenv(e, "AGENT_TIMEOUT", <<"60">>))]

\* str() of the ValueError CouncilConfig.from_env() raises, "" if it returns
from_env_raises(e) ==
    IF ~truthy(e["AZURE_AI_PROJECT_ENDPOINT"])
    THEN <<"AZURE_AI_PROJECT_ENDPOINT not found. ">>
    ELSE IF getenv(e, "TEMPERATURE_COUNCIL_MEMBERS", <<"0.7">>) \notin FloatNumerals
    THEN <<"could not convert string to float: ">>
    ELSE IF getenv(e, "TEMPERATURE_CHAIR", <<"0.3">>) \notin FloatNumerals
    THEN <<"could not convert string to float: ">>
    ELSE IF getenv(e, "AGENT_TIMEOUT", <<"60">>) \notin IntNumerals
    THEN <<"invalid literal for int() with base 10: ">>
    ELSE EmptyStr

\* str() of the ValueError CouncilConfig.validate() raises, "" if it returns
validate(config) ==
    IF ~truthy(config.project_endpoint)
    THEN <<"Azure AI Project Endpoint is required">>
    ELSE IF ~truthy(config.member_a.deployment_name)
    THEN <<"MODEL_DEPLOYMENT_GPT41 is required">>
    ELSE IF ~truthy(config.member_b.deployment_name)
    THEN <<"MODEL_DEPLOYMENT_DEEPSEEK is required">>
    ELSE IF ~truthy(config.chair.deployment_name)
    THEN <<"MODEL_DEPLOYMENT_GROK is required">>
    ELSE IF config.timeout <= 0
    THEN <<"AGENT_TIMEOUT must be positive">>
    ELSE EmptyStr

\* Mutant of load_and_validate: the instance is bound only once validate()
\* has returned.
load_validate_then_bind(instance, e) ==
    IF from_env_raises(e) # EmptyStr
    THEN [instance |-> instance, raised |-> from_env_raises(e)]
    ELSE IF validate(CouncilConfig(e)) # EmptyStr
    THEN [instance |-> instance, raised |-> validate(CouncilConfig(e))]
    ELSE [instance |-> <<CouncilConfig(e)>>, raised |-> EmptyStr]

\* _config_instance = CouncilConfig.from_env(); _config_instance.validate():
\* the global after the two statements, and what they raised
load_and_validate(instance, e) ==
    IF from_env_raises(e) # EmptyStr
    THEN [instance |-> instance, raised |-> from_env_raises(e)]
    ELSE [instance |-> <<CouncilConfig(e)>>, raised |-> validate(CouncilConfig(e))]

\* Mutant of get_config: every call loads the environment.
get_config_always_loads(instance, e) == load_and_validate(instance, e)

\* get_config(): the global afterwards and what was raised; when nothing
\* was raised the instance is the value returned
get_config(instance, e) ==
    IF instance = <<>>
    THEN load_and_validate(instance, e)
    ELSE [instance |-> instance, raised |-> EmptyStr]

\* reload_config()
reload_config(instance, e) == load_and_validate(instance, e)

\* the environment changes between two calls
SetEnv(e) ==
    /\ e # env
    /\ env' = e
    /\ UNCHANGED <<config_instance, self_config, config_raised>>

GetConfig ==
    /\ config_instance' = get_config(config_instance, env).instance
    /\ config_raised' = get_config(config_instance, env).raised
    /\ UNCHANGED <<env, self_config>>

ReloadConfig ==
    /\ config_instance' = reload_config(config_instance, env).instance
    /\ config_raised' = reload_config(config_instance, env).raised
    /\ UNCHANGED <<env, self_config>>

\* DebateOrchestrator(): self.config = config or get_config(), then the
\* api_key test
Construct ==
    LET got == get_config(config_instance, env)
    IN  /\ config_instance' = got.instance
        /\ IF got.raised # EmptyStr
           THEN /\ config_raised' = got.raised
                /\ UNCHANGED self_config
           ELSE IF ~truthy(got.instance[1].api_key)
           THEN /\ config_raised' = <<"AZURE_AI_API_KEY is required. ">>
                /\ UNCHANGED self_config
           ELSE /\ config_raised' = EmptyStr
                /\ self_config' = got.instance
        /\ UNCHANGED env

\* the process starts with the required settings and nothing loaded
ConfigInit ==
    /\ env = BaseEnv
    /\ config_instance = <<>>
    /\ self_config = <<>>
    /\ config_raised = EmptyStr

NextConfig ==
    \/ \E e \in Environments : SetEnv(e) /\ UNCHANGED outside_config
    \/ GetConfig /\ UNCHANGED outside_config
    \/ ReloadConfig /\ UNCHANGED outside_config
    \/ Construct /\ UNCHANGED outside_config

----------------------------------------------------------------------------
(* The specification.                                                      *)

\* no coroutine created, no request posted
RequestInit ==
    /\ call_params = [c \in Calls |-> <<>>]
    /\ sent = [c \in Calls |-> <<>>]

\* The two invocations of conduct_debate on one orchestrator.
Invocations == {1, 2}

\* an invocation that has not been made
NotInvoked ==
    [pc |-> "Idle", user_query |-> EmptyStr, calls |-> [c \in Calls |-> NotCalled],
     returned |-> <<>>, raised |-> EmptyStr, overlapped |-> FALSE]

OverlapInit ==
    /\ debates = [d \in Invocations |-> NotInvoked]
    /\ frames = [d \in Invocations |-> EmptyResponses]

\* _call_model not yet called
LoopInit ==
    retry_loop = [pc |-> "none", max_retries |-> 0, next |-> 0, attempt |-> 0,
                  sleeps |-> <<>>, result |-> EmptyStr, error |-> EmptyStr,
                  last_failure |-> NoFailure]

\* app.py: LLMCouncil() constructed, conduct_debate not yet called
CouncilInit ==
    council = [pc |-> "Idle", calls |-> [c \in Calls |-> NotCalled],
               responses |-> EmptyResponses, returned |-> <<>>, raised |-> EmptyStr]

\* process_query not yet called
UIInit ==
    /\ ui_pc = "Idle"
    /\ ui_query = EmptyStr
    /\ yielded = <<>>
    /\ submit_pc = "Idle"
    /\ history_in = <<>>
    /\ history = <<>>
    /\ current_response = EmptyStr

\* format_debate_output not yet called
FormatInit ==
    /\ format_seq = 0
    /\ format_call = <<>>

DebateInit ==
    /\ pc = "Idle"
    /\ user_query = EmptyStr
    /\ calls = [c \in Calls |-> NotCalled]
    /\ responses = EmptyResponses
    /\ session = "none"
    /\ done_order = <<>>
    /\ returned = <<>>
    /\ raised = EmptyStr

TimedInit ==
    /\ timer = [c \in Calls |-> 0]
    /\ attempt_log = [c \in Calls |-> <<>>]

\* app.py: LLMCouncil() constructed, conduct_debate not yet called
AppInit ==
    /\ app_pc = "Idle"
    /\ app_calls = [c \in Round1Calls |-> [phase |-> "none", attempt |-> 0, elapsed |-> 0]]

Init ==
    /\ DebateInit
    /\ TimedInit
    /\ AppInit
    /\ ConfigInit
    /\ RequestInit
    /\ FormatInit
    /\ OverlapInit
    /\ UIInit
    /\ LoopInit
    /\ CouncilInit

\* The debate with time left out: an attempt may time out at any moment.
Next ==
    \/ \E query \in Queries : ConductDebate(query) /\ UNCHANGED outside_debate
    \/ \E c \in Calls : Post(c) /\ UNCHANGED outside_debate
    \/ \E c \in Calls, content \in Texts \cup {EmptyStr, NoneValue} :
           Respond200(c, content) /\ UNCHANGED outside_debate
    \/ \E c \in Calls, f \in Failures : AttemptFails(c, f) /\ UNCHANGED outside_debate
    \/ \E c \in Calls : BackoffElapsed(c) /\ UNCHANGED outside_debate
    \/ Round1Done /\ UNCHANGED outside_debate
    \/ Round2ADone /\ UNCHANGED outside_debate
    \/ Round2BDone /\ UNCHANGED outside_debate
    \/ Round3Done /\ UNCHANGED outside_debate

Spec == Init /\ [][Next]_vars

----------------------------------------------------------------------------
(* Properties.                                                             *)

Succeeded(c) == calls[c].phase = "returned"

Exhausted(c) == calls[c].phase = "raised"

LaterCalls == {R2A, R2B, R3C}

\* C1: no call is issued before the calls it depends on have succeeded:
\* round2_a exists only once both round-1 calls returned, round2_b only
\* once round2_a returned, the chair only once round2_b returned.
C1_DependenciesResolved ==
    /\ calls[R2A].phase # "none" => Succeeded(R1A) /\ Succeeded(R1B)
    /\ calls[R2B].phase # "none" => Succeeded(R1A) /\ Succeeded(R1B) /\ Succeeded(R2A)
    /\ calls[R3C].phase # "none" =>
           Succeeded(R1A) /\ Succeeded(R1B) /\ Succeeded(R2A) /\ Succeeded(R2B)
    /\ \A c \in LaterCalls : calls[c].requests > 0 <=> calls[c].phase # "none"

C1_Witness == calls[R3C].requests > 0 /\ calls[R3C].phase = "inflight"

\* C2: once a round-1 call has exhausted its retries, whatever the other
\* one does, the debate is still in round 1 or has failed, it fails as soon
\* as gather is over, and no round-2 or round-3 request has been issued.
C2_Round1FailureAborts ==
    (Exhausted(R1A) \/ Exhausted(R1B)) =>
        /\ pc \in {"Round1Running", "Failed"}
        /\ \A c \in LaterCalls : calls[c].requests = 0
        /\ pc = "Failed" => raised # EmptyStr /\ returned = <<>>
        /\ (pc = "Round1Running" /\ \A c \in Round1Calls : Finished(calls[c]))
               => ENABLED (Round1Done /\ pc' = "Failed")

C2_Witness ==
    /\ pc = "Failed"
    /\ Exhausted(R1B)
    /\ Succeeded(R1A)
    /\ calls[R1A].result \in Texts

\* C3: a call whose every attempt failed made exactly 3 requests, slept 1
\* before the second and 2 before the third, and raised an exception that
\* says the attempts are used up and holds str() of the last attempt's
\* exception, of whatever kind that was; no call ever sleeps otherwise.
C3_ExhaustedAfterThreeAttempts ==
    \A c \in Calls :
        /\ Exhausted(c) =>
              /\ calls[c].requests = 3
              /\ calls[c].sleeps = <<1, 2>>
              /\ calls[c].last_failure \in Failures
              /\ calls[c].error[1] \in {"Model failed after ", "Model timed out after "}
              /\ calls[c].error[2] = "3"
              /\ Contains(calls[c].error, calls[c].last_failure.text)
        /\ calls[c].requests <= 3
        /\ Len(calls[c].sleeps) <= 2
        /\ \A i \in 1..Len(calls[c].sleeps) : calls[c].sleeps[i] = i
        /\ calls[c].phase = "sleeping" => Len(calls[c].sleeps) = calls[c].requests
        /\ calls[c].phase \in {"inflight", "returned"} =>
               Len(calls[c].sleeps) = calls[c].requests - 1

C3_Witness ==
    /\ Exhausted(R1A)
    /\ calls[R1A].last_failure.kind = "timeout"
    /\ Exhausted(R1B)
    /\ calls[R1B].last_failure.kind = "status"

\* C4: conduct_debate hands its caller either nothing and an exception or
\* the five texts its five successful calls returned; a debate in which a
\* call failed returns nothing.
C4_NoPartialResult ==
    /\ returned # <<>> =>
          /\ pc = "Complete"
          /\ raised = EmptyStr
          /\ \A c \in Calls : Succeeded(c) /\ returned[1][c] = calls[c].result
    /\ pc = "Complete" => returned # <<>>
    /\ pc = "Failed" => returned = <<>> /\ raised # EmptyStr
    /\ (\E c \in Calls : Exhausted(c)) => pc # "Complete"

C4_Witness ==
    /\ pc = "Complete"
    /\ returned # <<>>
    /\ returned[1][R1A] # returned[1][R1B]

\* the call whose exception conduct_debate wrapped
FailedCalls == {c \in Calls : Exhausted(c) /\ raised = DebateFailedMessage(calls[c].error)}

\* C5: the exception of an aborted debate names the stage that failed:
\* its message holds the (round, participant) key of a call that exhausted
\* its retries.
C5_FailureNamesStage ==
    (pc = "Failed" /\ FailedCalls # {}) =>
        \E c \in FailedCalls : Contains(raised, <<c>>)

\* C6: the two round-1 calls run concurrently: member B's first request
\* does not wait for member A's response, and while one member sleeps
\* between attempts the other's response, failure and next attempt can
\* take place.
C6_Round1Concurrent ==
    pc = "Round1Running" =>
        /\ (calls[R1A].phase = "inflight" /\ calls[R1B].phase = "ready")
               => ENABLED Post(R1B)
        /\ \A c \in Round1Calls : \A d \in Round1Calls \ {c} :
               calls[c].phase = "sleeping" =>
                   /\ calls[d].phase = "inflight" =>
                          /\ ENABLED Respond200(d, EmptyStr)
                          /\ ENABLED AttemptFails(d, TimeoutFailure)
                   /\ calls[d].phase = "sleeping" => ENABLED BackoffElapsed(d)

C6_Witness ==
    /\ pc = "Round1Running"
    /\ calls[R1A].phase = "inflight"
    /\ calls[R1B].phase = "inflight"
    /\ calls[R1A].requests = 1
    /\ calls[R1B].requests = 1
    /\ done_order = <<>>

\* the round-1 call that exhausted its retries first
FirstFailed ==
    IF Exhausted(done_order[1]) THEN done_order[1] ELSE done_order[2]

\* C7: a debate that fails in round 1 fails with the error of the round-1
\* call that failed first.
C7_FirstFailureWins ==
    (pc = "Failed" /\ \E c \in Round1Calls : Exhausted(c)) =>
        raised = DebateFailedMessage(calls[FirstFailed].error)

\* C8: once round2_a has exhausted its retries neither round2_b nor the
\* chair is ever called, once round2_b has the chair never is, and the
\* debate fails.
C8_Round2FailureAborts ==
    /\ Exhausted(R2A) =>
          /\ calls[R2B].phase = "none" /\ calls[R2B].requests = 0
          /\ calls[R3C].phase = "none" /\ calls[R3C].requests = 0
          /\ pc \in {"Round2AComputing", "Failed"}
          /\ pc = "Round2AComputing" => ENABLED (Round2ADone /\ pc' = "Failed")
    /\ Exhausted(R2B) =>
          /\ calls[R3C].phase = "none" /\ calls[R3C].requests = 0
          /\ pc \in {"Round2BComputing", "Failed"}
          /\ pc = "Round2BComputing" => ENABLED (Round2BDone /\ pc' = "Failed")

C8_Witness ==
    /\ pc = "Failed"
    /\ Exhausted(R2B)
    /\ Succeeded(R2A)

RunningStages ==
    {"Round1Running", "Round2AComputing", "Round2BComputing", "Round3Computing"}

StageTransitions ==
    {<<"Idle", "Round1Running">>,
     <<"Round1Running", "Round2AComputing">>,
     <<"Round2AComputing", "Round2BComputing">>,
     <<"Round2BComputing", "Round3Computing">>,
     <<"Round3Computing", "Complete">>}
        \cup {<<s, "Failed">> : s \in RunningStages}

\* C9: one invocation only moves along Idle, Round1Running,
\* Round2AComputing, Round2BComputing, Round3Computing, Complete, or from
\* a running stage to Failed; nothing leaves Complete or Failed, so no
\* stage is entered twice.
C9_ForwardOnly == [][pc' # pc => <<pc, pc'>> \in StageTransitions]_vars

C9_Witness ==
    /\ pc = "Failed"
    /\ Exhausted(R3C)
    /\ Succeeded(R2B)

\* C10: the user message of round2_a holds the query and the text
\* round1_b returned, that of round2_b the query and the texts round1_a
\* and round2_a returned, that of the chair the query and the four texts
\* the four calls before it returned.
C10_PromptsEmbedPriorTexts ==
    /\ calls[R2A].requests > 0 =>
          /\ Contains(calls[R2A].user_message, user_query)
          /\ Succeeded(R1B) /\ Contains(calls[R2A].user_message, calls[R1B].result)
    /\ calls[R2B].requests > 0 =>
          /\ Contains(calls[R2B].user_message, user_query)
          /\ Succeeded(R1A) /\ Contains(calls[R2B].user_message, calls[R1A].result)
          /\ Succeeded(R2A) /\ Contains(calls[R2B].user_message, calls[R2A].result)
    /\ calls[R3C].requests > 0 =>
          /\ Contains(calls[R3C].user_message, user_query)
          /\ \A c \in {R1A, R1B, R2A, R2B} :
                 Succeeded(c) /\ Contains(calls[R3C].user_message, calls[c].result)

C10_Witness ==
    /\ calls[R3C].requests > 0
    /\ \A c \in {R1A, R1B, R2A, R2B} : calls[c].result \in Texts

\* the stage in which conduct_debate awaits call c
StageOf(c) ==
    CASE c \in Round1Calls -> "Round1Running"
      [] c = R2A -> "Round2AComputing"
      [] c = R2B -> "Round2BComputing"
      [] c = R3C -> "Round3Computing"

C11_FiveSuccessfulCalls ==
    pc = "Complete" =>
        /\ Cardinality({c \in Calls : Succeeded(c)}) = 5
        /\ \A c \in Calls : responses[c] = calls[c].result

C11_SlotsWrittenOnce ==
    \A c \in Calls :
        /\ responses'[c] # responses[c] =>
              /\ pc = StageOf(c)
              /\ pc' # pc
              /\ Succeeded(c)
              /\ responses'[c] = calls[c].result
        /\ Succeeded(c) => calls'[c] = calls[c]

\* C11: a response slot is assigned only in the step that ends the stage
\* of its own call, with the text that one call returned, and stages are
\* never re-entered, so a slot is written once and by one call; a call
\* that returned never returns again; a completed debate has five
\* successful calls, one per slot.
C11_WriteOnce == []C11_FiveSuccessfulCalls /\ [][C11_SlotsWrittenOnce]_vars /\ [][pc' # pc => <<pc, pc'>> \in StageTransitions]_vars

C11_Witness ==
    /\ pc = "Complete"
    /\ \A c \in Calls : responses[c] \in Texts

RECURSIVE SumRequests(_)
SumRequests(S) ==
    IF S = {} THEN 0
    ELSE LET c == CHOOSE x \in S : TRUE
         IN calls[c].requests + SumRequests(S \ {c})

C14_AttemptsBounded ==
    /\ \A c \in Calls : calls[c].requests <= 3
    /\ SumRequests(Calls) <= 15

C14_NothingAfterFailure ==
    /\ \A c \in Calls : Exhausted(c) => calls'[c] = calls[c]
    /\ \A c \in Calls : calls'[c].requests >= calls[c].requests
    /\ pc \in {"Failed", "Complete"} => pc' = pc /\ calls' = calls

\* C14: no call is attempted more than 3 times and a debate issues at
\* most 15 requests; a call that exhausted its retries is not touched
\* again, request counts never restart, and once the debate has failed or
\* completed no call changes and the debate does not start again.
C14_NoRetryAboveInvoker == []C14_AttemptsBounded /\ [][C14_NothingAfterFailure]_vars

C14_Witness ==
    /\ SumRequests(Calls) = 15
    /\ pc = "Failed"

----------------------------------------------------------------------------
(* _call_model with the time of each attempt: session.post(..., timeout=   *)
(* aiohttp.ClientTimeout(total=self.config.timeout)) inside the retry loop. *)

\* self.config.timeout, in units of time
TimeoutTicks == 2

\* Mutant of StartTimer: one timer runs over all the attempts of a call.
StartTimerCumulative(t, c) == t

\* aiohttp.ClientTimeout(total=...) is built for each session.post
StartTimer(t, c) == [t EXCEPT ![c] = 0]

\* time passes while the request of c is outstanding
Tick(c) ==
    /\ calls[c].phase = "inflight"
    /\ timer[c] < TimeoutTicks
    /\ timer' = [timer EXCEPT ![c] = @ + 1]
    /\ UNCHANGED <<debate_vars, attempt_log>>

\* asyncio.TimeoutError is raised when the total time is used up, and
\* every other outcome of the attempt comes before that
TimerAllows(c, kind) == (kind = "timeout") <=> (timer[c] = TimeoutTicks)

PostTimed(c) ==
    /\ Post(c)
    /\ timer' = StartTimer(timer, c)
    /\ UNCHANGED attempt_log

Respond200Timed(c, content) ==
    /\ TimerAllows(c, "none")
    /\ Respond200(c, content)
    /\ timer' = [timer EXCEPT ![c] = 0]
    /\ attempt_log' = [attempt_log EXCEPT ![c] = <<>>]

AttemptFailsTimed(c, f) ==
    /\ TimerAllows(c, f.kind)
    /\ AttemptFails(c, f)
    /\ attempt_log' = [attempt_log EXCEPT ![c] = Append(@, f.kind)]
    /\ UNCHANGED timer

BackoffElapsedTimed(c) ==
    /\ BackoffElapsed(c)
    /\ timer' = StartTimer(timer, c)
    /\ UNCHANGED attempt_log

NextTimed ==
    \/ ConductDebate(OneQuery) /\ UNCHANGED outside_debate
    \/ \E c \in Calls : PostTimed(c) /\ UNCHANGED outside_timed
    \/ \E c \in Calls : Tick(c) /\ UNCHANGED outside_timed
    \/ \E c \in Calls : Respond200Timed(c, OneText) /\ UNCHANGED outside_timed
    \/ \E c \in Calls, f \in OneFailurePerKind :
           AttemptFailsTimed(c, f) /\ UNCHANGED outside_timed
    \/ \E c \in Calls : BackoffElapsedTimed(c) /\ UNCHANGED outside_timed
    \/ Round1Done /\ UNCHANGED outside_debate
    \/ Round2ADone /\ UNCHANGED outside_debate
    \/ Round2BDone /\ UNCHANGED outside_debate
    \/ Round3Done /\ UNCHANGED outside_debate

SpecTimed == Init /\ [][NextTimed]_vars

SpecConfig == Init /\ [][NextConfig]_vars

FailureKinds == {f.kind : f \in OneFailurePerKind}

\* the attempts of c that have failed so far
FailedAttempts(c) ==
    IF calls[c].phase = "inflight" THEN calls[c].requests - 1 ELSE calls[c].requests

\* C15: the attempt budget of one call is shared across failure kinds.
\* Whatever kinds the failed attempts of a call were - timeout, non-success
\* status, transport error, malformed success response - each one used up
\* one of the 3 attempts, the sleeps after them were 1 then 2, and the call
\* has given up exactly when 3 attempts of any kinds have failed.
C15_SharedAttemptBudget ==
    \A c \in Calls :
        calls[c].phase \in {"inflight", "sleeping", "raised"} =>
            /\ \A i \in DOMAIN attempt_log[c] : attempt_log[c][i] \in FailureKinds
            /\ Len(attempt_log[c]) = FailedAttempts(c)
            /\ Len(attempt_log[c]) <= max_retries
            /\ (calls[c].phase = "raised") <=> (Len(attempt_log[c]) = max_retries)
            /\ (calls[c].phase = "sleeping") => Len(calls[c].sleeps) = Len(attempt_log[c])
            /\ Len(calls[c].sleeps) <= 2
            /\ \A i \in DOMAIN calls[c].sleeps : calls[c].sleeps[i] = i
            /\ Len(calls[c].sleeps) = IF Len(attempt_log[c]) < 2 THEN Len(attempt_log[c]) ELSE 2

C15_Witness ==
    /\ calls[R1B].phase = "raised"
    /\ attempt_log[R1B] = <<"status", "malformed", "timeout">>
    /\ calls[R1B].sleeps = <<1, 2>>
    /\ calls[R1A].phase = "sleeping"
    /\ attempt_log[R1A] = <<"transport", "timeout">>

----------------------------------------------------------------------------
(* app.py: round 1 of LLMCouncil.conduct_debate. _call_model calls the     *)
(* synchronous client.chat.completions.create(...) from a coroutine, and   *)
(* self.timeout, read from AGENT_TIMEOUT, is passed to nothing.            *)

\* How long the model lets a request of app.py stay outstanding: neither
\* AzureOpenAI(...) nor create(...) is given self.timeout, so the setting
\* does not limit it.
MaxPending == TimeoutTicks + 1

\* The event loop runs one coroutine at a time and create(...) does not
\* yield: while a request is outstanding no other coroutine runs.
AppLoopFree == \A c \in Round1Calls : app_calls[c].phase # "inflight"

\* asyncio.gather starts the coroutines in argument order
AppRunnable(c) ==
    /\ AppLoopFree
    /\ c = R1B => app_calls[R1A].phase # "ready"

\* round1_results = await asyncio.gather(self._call_model(...), self._call_model(...))
AppConductDebate ==
    /\ app_pc = "Idle"
    /\ app_pc' = "Round1Running"
    /\ app_calls' = [c \in Round1Calls |-> [phase |-> "ready", attempt |-> 0, elapsed |-> 0]]
    /\ UNCHANGED outside_app

\* client.chat.completions.create(...) of attempt 0
AppPost(c) ==
    /\ app_calls[c].phase = "ready"
    /\ AppRunnable(c)
    /\ app_calls' = [app_calls EXCEPT ![c] = [@ EXCEPT !.phase = "inflight", !.elapsed = 0]]
    /\ UNCHANGED <<app_pc, outside_app>>

\* time passes while create(...) has not come back
AppTick(c) ==
    /\ app_calls[c].phase = "inflight"
    /\ app_calls[c].elapsed < MaxPending
    /\ app_calls' = [app_calls EXCEPT ![c] = [@ EXCEPT !.elapsed = @ + 1]]
    /\ UNCHANGED <<app_pc, outside_app>>

\* return response.choices[0].message.content
AppRespond(c) ==
    /\ app_calls[c].phase = "inflight"
    /\ app_calls' = [app_calls EXCEPT ![c] = [@ EXCEPT !.phase = "returned"]]
    /\ UNCHANGED <<app_pc, outside_app>>

\* except Exception as e: sleep and go round the loop, or raise
AppAttemptFails(c) ==
    /\ app_calls[c].phase = "inflight"
    /\ app_calls' = [app_calls EXCEPT ![c] =
                        [@ EXCEPT !.phase = IF retries_left(app_calls[c].attempt)
                                             THEN "sleeping" ELSE "raised"]]
    /\ UNCHANGED <<app_pc, outside_app>>

\* asyncio.sleep(wait_time) is over and the loop resumes the coroutine:
\* the next attempt's create(...)
AppBackoffElapsed(c) ==
    /\ app_calls[c].phase = "sleeping"
    /\ AppLoopFree
    /\ app_calls' = [app_calls EXCEPT ![c] =
                        [@ EXCEPT !.phase = "inflight", !.attempt = @ + 1, !.elapsed = 0]]
    /\ UNCHANGED <<app_pc, outside_app>>

\* gather is over: if isinstance(round1_results[i], Exception): raise
AppRound1Done ==
    /\ app_pc = "Round1Running"
    /\ \A c \in Round1Calls : app_calls[c].phase \in {"returned", "raised"}
    /\ app_pc' = IF \E c \in Round1Calls : app_calls[c].phase = "raised"
                 THEN "Failed" ELSE "Round1Checked"
    /\ UNCHANGED <<app_calls, outside_app>>

NextApp ==
    \/ AppConductDebate
    \/ \E c \in Round1Calls : AppPost(c)
    \/ \E c \in Round1Calls : AppTick(c)
    \/ \E c \in Round1Calls : AppRespond(c)
    \/ \E c \in Round1Calls : AppAttemptFails(c)
    \/ \E c \in Round1Calls : AppBackoffElapsed(c)
    \/ AppRound1Done

SpecApp == Init /\ [][NextApp]_vars

\* orchestrator.py alone: an outstanding attempt has been pending for at
\* most the configured timeout, and each attempt's time starts at zero.
TimedAttemptsBounded == \A c \in Calls : timer[c] <= TimeoutTicks

TimedAttemptsStartAfresh ==
    \A c \in Calls :
        (calls[c].phase # "inflight" /\ calls'[c].phase = "inflight") => timer'[c] = 0

\* C13: each attempt of a model call is bounded by the configured timeout
\* on its own: no attempt, of DebateOrchestrator._call_model or of
\* LLMCouncil._call_model, is still pending once more than the configured
\* timeout has passed since that attempt's request was issued.
C13_AttemptBoundedByTimeout ==
    /\ TimedAttemptsBounded
    /\ \A c \in Round1Calls :
           app_calls[c].phase = "inflight" => app_calls[c].elapsed <= TimeoutTicks

----------------------------------------------------------------------------
(* Configuration and the orchestrator.                                     *)

\* a configuration with every required setting that passes validate()
ValidConfig(config) ==
    /\ truthy(config.project_endpoint)
    /\ truthy(config.api_key)
    /\ truthy(config.member_a.deployment_name)
    /\ truthy(config.member_b.deployment_name)
    /\ truthy(config.chair.deployment_name)
    /\ validate(config) = EmptyStr

\* C18: missing or invalid settings prevent the orchestrator from being
\* constructed: whatever get_config(), reload_config() and
\* DebateOrchestrator() calls came before, a constructed DebateOrchestrator
\* holds a configuration with the endpoint, the API key and the three
\* deployment names, and one that passes CouncilConfig.validate().
C18_NoOrchestratorWithInvalidConfig ==
    self_config # <<>> => ValidConfig(self_config[1])

----------------------------------------------------------------------------
(* The requests of a debate: what _call_model puts into url, headers and   *)
(* payload, and the timeout of each session.post, all read from            *)
(* self.config.                                                            *)

\* Mutant of orchestrator_config: the orchestrator reads the process-wide
\* instance each time it needs a setting.
orchestrator_config_from_global == config_instance[1]

\* self.config
orchestrator_config == self_config[1]

\* Mutant of participant: in round 2 each member's call is made with the
\* other member's settings.
participant_round2_swapped(config, c) ==
    CASE c \in {R1A, R2B} -> config.member_a
      [] c \in {R1B, R2A} -> config.member_b
      [] c = R3C -> config.chair

\* the participant whose settings conduct_debate passes for call c
participant(config, c) ==
    CASE c \in {R1A, R2A} -> config.member_a
      [] c \in {R1B, R2B} -> config.member_b
      [] c = R3C -> config.chair

\* get_member_a_prompt(), get_member_b_prompt(), get_chair_prompt()
system_prompt(c) ==
    CASE c \in {R1A, R2A} -> <<"MEMBER_A_PROMPT">>
      [] c \in {R1B, R2B} -> <<"MEMBER_B_PROMPT">>
      [] c = R3C -> <<"CHAIR_PROMPT">>

\* the arguments of self._call_model(...), evaluated when the coroutine is
\* created
call_arguments(config, c) ==
    [system_prompt |-> system_prompt(c),
     user_message |-> calls'[c].user_message,
     temperature |-> participant(config, c).temperature,
     model_name |-> participant(config, c).deployment_name]

\* url, headers and payload as _call_model builds them when it starts to
\* run, the timeout of this session.post, and the process-wide instance at
\* the time of the post
request(config, args, global) ==
    [url |-> Str(config.project_endpoint) \o <<"/openai/deployments/">>
                 \o Str(args.model_name)
                 \o <<"/chat/completions?api-version=2024-10-21">>,
     api_key |-> config.api_key,
     system_prompt |-> args.system_prompt,
     user_message |-> args.user_message,
     temperature |-> args.temperature,
     timeout |-> config.timeout,
     global |-> global]

\* the coroutines a step of conduct_debate creates get their arguments
CreateCalls ==
    call_params' =
        [c \in Calls |->
            IF calls[c].phase = "none" /\ calls'[c].phase # "none"
            THEN <<call_arguments(orchestrator_config, c)>>
            ELSE call_params[c]]

\* the call that posts in this step sends a request
SendRequests ==
    sent' =
        [c \in Calls |->
            IF calls'[c].requests > calls[c].requests
            THEN <<request(orchestrator_config, call_params'[c][1], config_instance)>>
            ELSE sent[c]]

\* DebateOrchestrator() before the debate
ConstructIdle ==
    /\ pc = "Idle"
    /\ Construct
    /\ UNCHANGED <<debate_vars, request_vars, outside_requests>>

\* conduct_debate on the constructed orchestrator
ConductDebateOn(query) ==
    /\ self_config # <<>>
    /\ ConductDebate(query)
    /\ call_params' = [c \in Calls |->
                          IF c \in Round1Calls
                          THEN <<call_arguments(orchestrator_config, c)>> ELSE <<>>]
    /\ sent' = [c \in Calls |-> <<>>]
    /\ UNCHANGED <<config_vars, outside_requests>>

\* a step of the debate that creates the next round's coroutine and runs
\* it up to its first session.post
RoundDone(step) ==
    /\ step
    /\ CreateCalls
    /\ SendRequests
    /\ UNCHANGED <<config_vars, outside_requests>>

\* a step of one call, which may post a request
CallStep(step) ==
    /\ step
    /\ UNCHANGED call_params
    /\ SendRequests
    /\ UNCHANGED <<config_vars, outside_requests>>

\* the environment changes, or reload_config() runs, at any time
ConfigStep(step) ==
    /\ step
    /\ UNCHANGED <<debate_vars, request_vars, outside_requests>>

\* The settings of a request do not depend on the texts: one query, one
\* reply text, and the timeout as the failure that is retried.
NextRequests ==
    \/ ConstructIdle
    \/ \E e \in ValidEnvironments : ConfigStep(SetEnv(e))
    \/ ConfigStep(ReloadConfig)
    \/ ConductDebateOn(OneQuery)
    \/ \E c \in Calls : CallStep(Post(c))
    \/ \E c \in Calls : CallStep(Respond200(c, OneText))
    \/ \E c \in Calls : CallStep(AttemptFails(c, TimeoutFailure))
    \/ \E c \in Calls : CallStep(BackoffElapsed(c))
    \/ RoundDone(Round1Done)
    \/ RoundDone(Round2ADone)
    \/ RoundDone(Round2BDone)
    \/ RoundDone(Round3Done)

SpecRequests == Init /\ [][NextRequests]_vars

\* every request a call has posted carries the settings of the
\* configuration the orchestrator holds
C17_RequestsUseOwnConfig ==
    \A c \in Calls : \A r \in {sent[c][i] : i \in DOMAIN sent[c]} :
        /\ self_config # <<>>
        /\ r.url = Str(self_config[1].project_endpoint) \o <<"/openai/deployments/">>
                     \o Str(participant(self_config[1], c).deployment_name)
                     \o <<"/chat/completions?api-version=2024-10-21">>
        /\ r.api_key = self_config[1].api_key
        /\ r.temperature = participant(self_config[1], c).temperature
        /\ r.timeout = self_config[1].timeout

\* the orchestrator's configuration is the one it was constructed with as
\* long as a debate runs
C17_ConfigKeptDuringDebate ==
    pc \notin {"Idle", "Complete", "Failed"} => self_config' = self_config

\* C17: the orchestrator never reloads configuration mid-debate: with
\* reload_config() calls and environment changes interleaved with a debate,
\* every request of each of the five calls carries the endpoint, credential,
\* model id, temperature and timeout of the configuration the orchestrator
\* was constructed with.
C17_NoReloadMidDebate ==
    []C17_RequestsUseOwnConfig /\ [][C17_ConfigKeptDuringDebate]_vars

C17_Witness ==
    /\ pc = "Complete"
    /\ sent[R1A][1].global = self_config
    /\ \A c \in Calls \ {R1A} : sent[c][1].global # self_config
    /\ sent[R3C][1].global[1].timeout # sent[R3C][1].timeout
    /\ calls[R3C].requests = 3

----------------------------------------------------------------------------
(* format_debate_output: the f-string, one token for each line of the      *)
(* template and the interpolated values as they are.                       *)

\* Mutant of format_debate_output: the round-1 responses stand under each
\* other's name.
format_debate_output_members_swapped(resp, config) ==
    <<"#  LLM Council Debate\n", "\n", "##  Round 1: Independent Analysis\n", "\n">>
        \o <<"###  ">> \o Str(config.member_a.display_name) \o <<"\n">>
        \o Str(resp[R1B]) \o <<"\n", "\n", "---\n", "\n">>
        \o <<"###  ">> \o Str(config.member_b.display_name) \o <<"\n">>
        \o Str(resp[R1A]) \o <<"\n", "\n", "---\n", "\n">>
        \o <<"##  Round 2: Chain-of-Debate\n", "\n">>
        \o <<"###  Member A's Critique\n">>
        \o Str(resp[R2A]) \o <<"\n", "\n", "---\n", "\n">>
        \o <<"###  Member B's Response\n">>
        \o Str(resp[R2B]) \o <<"\n", "\n", "---\n", "\n">>
        \o <<"##  Round 3: Chair's Final Verdict (">>
        \o Str(config.chair.deployment_name) \o <<")\n", "\n">>
        \o Str(resp[R3C]) \o <<"\n">>

\* the text format_debate_output returns for a configuration
format_debate_output(resp, config) ==
    <<"#  LLM Council Debate\n", "\n", "##  Round 1: Independent Analysis\n", "\n">>
        \o <<"###  ">> \o Str(config.member_a.display_name) \o <<"\n">>
        \o Str(resp[R1A]) \o <<"\n", "\n", "---\n", "\n">>
        \o <<"###  ">> \o Str(config.member_b.display_name) \o <<"\n">>
        \o Str(resp[R1B]) \o <<"\n", "\n", "---\n", "\n">>
        \o <<"##  Round 2: Chain-of-Debate\n", "\n">>
        \o <<"###  Member A's Critique\n">>
        \o Str(resp[R2A]) \o <<"\n", "\n", "---\n", "\n">>
        \o <<"###  Member B's Response\n">>
        \o Str(resp[R2B]) \o <<"\n", "\n", "---\n", "\n">>
        \o <<"##  Round 3: Chair's Final Verdict (">>
        \o Str(config.chair.deployment_name) \o <<")\n", "\n">>
        \o Str(resp[R3C]) \o <<"\n">>

\* the texts a result holds in the calls of format_debate_output
FormatTexts == Texts \cup {EmptyStr}

\* the results format_debate_output is called with: one response differs
\* from the four others, or all five are the same
FormatResponses ==
    {[c \in Calls |-> IF c = c0 THEN a ELSE b] : c0 \in Calls, a \in FormatTexts, b \in FormatTexts}

\* the environments format_debate_output may find when config is omitted
FormatEnvironments == ValidEnvironments \cup {[BaseEnv EXCEPT !.AGENT_TIMEOUT = <<"0">>]}

\* the config argument: omitted, or a configuration loaded earlier
ConfigArguments == {<<>>} \cup {<<CouncilConfig(e)>> : e \in ValidEnvironments}

\* config = config or get_config(): the global afterwards, what was raised
config_or_get_config(config, instance, e) ==
    IF config # <<>>
    THEN [instance |-> instance, raised |-> EmptyStr, config |-> config]
    ELSE [instance |-> get_config(instance, e).instance,
          raised |-> get_config(instance, e).raised,
          config |-> IF get_config(instance, e).raised = EmptyStr
                     THEN get_config(instance, e).instance ELSE <<>>]

\* format_debate_output(responses, config)
Format(resp, config) ==
    LET got == config_or_get_config(config, config_instance, env)
    IN  /\ config_instance' = got.instance
        /\ config_raised' = got.raised
        /\ format_seq' = 1 - format_seq
        /\ format_call' =
               <<[responses |-> resp,
                  config |-> got.config,
                  raised |-> got.raised,
                  text |-> IF got.raised = EmptyStr
                           THEN format_debate_output(resp, got.config[1])
                           ELSE EmptyStr]>>
        /\ UNCHANGED outside_format

NextFormat ==
    \/ \E e \in FormatEnvironments : SetEnv(e) /\ UNCHANGED outside_config
    \/ ReloadConfig /\ UNCHANGED outside_config
    \/ \E resp \in FormatResponses, config \in ConfigArguments : Format(resp, config)

SpecFormat == Init /\ [][NextFormat]_vars

\* the least index from which x occurs in s at or after position from, 0 if none
RECURSIVE Find(_, _, _)
Find(s, x, from) ==
    IF from + Len(x) - 1 > Len(s) THEN 0
    ELSE IF SubSeq(s, from, from + Len(x) - 1) = x THEN from
    ELSE Find(s, x, from + 1)

\* text stands in s right after the first occurrence of header at or after
\* from: the position after the text, 0 if header or text is not there
RECURSIVE Under(_, _, _, _)
Under(s, header, text, from) ==
    LET h == IF from = 0 THEN 0 ELSE Find(s, header, from)
        t == h + Len(header)
    IN  IF h = 0 THEN 0
        ELSE IF t + Len(text) - 1 <= Len(s) /\ SubSeq(s, t, t + Len(text) - 1) = text
        THEN t + Len(text)
        ELSE 0

\* the five sections of a formatted text, one after the other
SectionsInOrder(text, resp, config) ==
    LET round1 == Find(text, <<"##  Round 1: Independent Analysis\n">>, 1)
        a1 == Under(text, <<"###  ">> \o config.member_a.display_name \o <<"\n">>,
                    Str(resp[R1A]) \o <<"\n">>, round1)
        b1 == Under(text, <<"###  ">> \o config.member_b.display_name \o <<"\n">>,
                    Str(resp[R1B]) \o <<"\n">>, a1)
        round2 == IF b1 = 0 THEN 0 ELSE Find(text, <<"##  Round 2: Chain-of-Debate\n">>, b1)
        a2 == Under(text, <<"###  Member A's Critique\n">>, Str(resp[R2A]) \o <<"\n">>, round2)
        b2 == Under(text, <<"###  Member B's Response\n">>, Str(resp[R2B]) \o <<"\n">>, a2)
        c3 == Under(text, <<"##  Round 3: Chair's Final Verdict (">>
                              \o config.chair.deployment_name \o <<")\n", "\n">>,
                    Str(resp[R3C]) \o <<"\n">>, b2)
    IN  c3 = Len(text) + 1

\* C19: the text format_debate_output returns holds the round-1 responses
\* under each member's configured display name, then the round-2 critique
\* and response under their headers, then the chair's verdict under the
\* round-3 header, in that order, each response right below its own header.
C19_FiveSectionsInRoundOrder ==
    \A i \in DOMAIN format_call :
        format_call[i].raised = EmptyStr =>
            SectionsInOrder(format_call[i].text, format_call[i].responses,
                            format_call[i].config[1])

C19_Witness ==
    /\ format_call # <<>>
    /\ format_call[1].raised = EmptyStr
    /\ format_call[1].config = <<CouncilConfig(OtherEnv)>>
    /\ format_call[1].responses[R1A] = EmptyStr
    /\ \A c \in Calls \ {R1A} : format_call[1].responses[c] \in Texts
    /\ Contains(format_call[1].text, <<"##  Round 3: Chair's Final Verdict (", "grok-b", ")\n">>)

\* the names a formatted text shows
shown_names(config) ==
    <<config.member_a.display_name, config.member_b.display_name,
      config.chair.deployment_name>>

\* a call of format_debate_output that returns leaves the process-wide
\* configuration and every call and request as they were, and returns the
\* text of the call before it when responses and names are the same
C20_FormatStepPure ==
    format_seq' # format_seq =>
        /\ config_instance' = config_instance
        /\ UNCHANGED <<calls, sent, app_calls>>
        /\ \A i \in DOMAIN format_call, j \in DOMAIN format_call' :
               (/\ format_call[i].raised = EmptyStr
                /\ format_call'[j].raised = EmptyStr
                /\ format_call[i].responses = format_call'[j].responses
                /\ shown_names(format_call[i].config[1]) = shown_names(format_call'[j].config[1]))
                   => format_call'[j].text = format_call[i].text

\* C20: format_debate_output is deterministic and pure: called again with
\* the same responses and the same names it returns the same text, it
\* issues no model request, and it changes no program state.
C20_FormatDeterministicAndPure == [][C20_FormatStepPure]_vars

----------------------------------------------------------------------------
(* Two invocations of conduct_debate on the same DebateOrchestrator, as     *)
(* two submissions to CouncilUI.process_query make them: each coroutine    *)
(* has its own frame, with its own `responses` and its own session.        *)

\* the query of invocation d, and the text the endpoint returns for its
\* call c
OvQuery(d) == <<"q", TokenPool[d]>>

OvReply(d, c) == <<"reply", TokenPool[d], c>>

\* Mutant of frame_of: the responses are kept on the orchestrator, one dict
\* for all invocations.
frame_on_self(d) == 1

\* responses = {...} is a local variable of the invocation
frame_of(d) == d

Running(d) == debates[d].pc \notin {"Idle", "Complete", "Failed"}

\* the step of invocation d that leaves it as D with responses R
OvStep(d, D, R) ==
    /\ debates' = [debates EXCEPT ![d] = D]
    /\ frames' = [frames EXCEPT ![frame_of(d)] = R]
    /\ UNCHANGED outside_overlap

\* the step of call c of invocation d that leaves the call as call
OvCallStep(d, c, call) ==
    OvStep(d, [debates[d] EXCEPT !.calls[c] = call], frames[frame_of(d)])

\* the scheduling of Runnable, for the calls cs of one invocation
OvRunnable(cs, c) ==
    CASE c = R1B -> cs[R1A].phase # "ready"
      [] c = R1A -> cs[c].phase = "ready" \/ cs[R1B].phase # "ready"
      [] OTHER -> TRUE

\* the except clause of conduct_debate
OvFail(D, e) == [D EXCEPT !.pc = "Failed", !.raised = DebateFailedMessage(e)]

\* conduct_debate(query) up to `await asyncio.gather(...)`
OvConductDebate(d) ==
    /\ debates[d].pc = "Idle"
    /\ OvStep(d,
              [debates[d] EXCEPT
                  !.pc = "Round1Running",
                  !.user_query = OvQuery(d),
                  !.calls = [@ EXCEPT ![R1A] = Scheduled(OvQuery(d)),
                                      ![R1B] = Scheduled(OvQuery(d))],
                  !.overlapped = \E e \in Invocations \ {d} : Running(e)],
              EmptyResponses)

OvPost(d, c) ==
    /\ debates[d].calls[c].phase = "ready"
    /\ OvRunnable(debates[d].calls, c)
    /\ OvCallStep(d, c, Posted(debates[d].calls[c]))

OvRespond200(d, c) ==
    /\ debates[d].calls[c].phase = "inflight"
    /\ OvRunnable(debates[d].calls, c)
    /\ OvCallStep(d, c, [debates[d].calls[c] EXCEPT !.phase = "returned",
                                                     !.result = OvReply(d, c)])

\* the calls whose attempts the model lets time out: one of the gathered
\* round-1 calls and one awaited call
OvFailing == {R1B, R2A}

OvAttemptFails(d, c) ==
    /\ c \in OvFailing
    /\ debates[d].calls[c].phase = "inflight"
    /\ OvRunnable(debates[d].calls, c)
    /\ OvCallStep(d, c, AfterFailure(debates[d].calls[c], TimeoutFailure))

OvBackoffElapsed(d, c) ==
    /\ debates[d].calls[c].phase = "sleeping"
    /\ OvCallStep(d, c, [debates[d].calls[c] EXCEPT !.phase = "inflight",
                                                     !.attempt = @ + 1,
                                                     !.requests = @ + 1])

\* gather has both results: the error check, then round 2's first call
OvRound1Done(d) ==
    LET D == debates[d]
        R == Store(Store(frames[frame_of(d)], R1A, D.calls[R1A].result),
                   R1B, D.calls[R1B].result)
    IN  /\ D.pc = "Round1Running"
        /\ \A c \in Round1Calls : Finished(D.calls[c])
        /\ IF Round1Error(D.calls) # "none"
           THEN OvStep(d, OvFail(D, D.calls[Round1Error(D.calls)].error),
                       frames[frame_of(d)])
           ELSE OvStep(d,
                       [D EXCEPT !.pc = "Round2AComputing",
                                 !.calls[R2A] = Called(get_round2_prompt_for_member_a(
                                                           D.user_query, R[R1B]))],
                       R)

\* round2_member_a's call is over: round2_member_b's call
OvRound2ADone(d) ==
    LET D == debates[d]
        R == Store(frames[frame_of(d)], R2A, D.calls[R2A].result)
    IN  /\ D.pc = "Round2AComputing"
        /\ Finished(D.calls[R2A])
        /\ IF D.calls[R2A].phase = "raised"
           THEN OvStep(d, OvFail(D, D.calls[R2A].error), frames[frame_of(d)])
           ELSE OvStep(d,
                       [D EXCEPT !.pc = "Round2BComputing",
                                 !.calls[R2B] = Called(get_round2_prompt_for_member_b(
                                                           D.user_query, R[R1A], R[R2A]))],
                       R)

\* round2_member_b's call is over: the chair's call
OvRound2BDone(d) ==
    LET D == debates[d]
        R == Store(frames[frame_of(d)], R2B, D.calls[R2B].result)
    IN  /\ D.pc = "Round2BComputing"
        /\ Finished(D.calls[R2B])
        /\ IF D.calls[R2B].phase = "raised"
           THEN OvStep(d, OvFail(D, D.calls[R2B].error), frames[frame_of(d)])
           ELSE OvStep(d,
                       [D EXCEPT !.pc = "Round3Computing",
                                 !.calls[R3C] = Called(get_chair_synthesis_prompt(
                                                           D.user_query, R[R1A], R[R1B],
                                                           R[R2A], R[R2B]))],
                       R)

\* the chair's call is over: return responses
OvRound3Done(d) ==
    LET D == debates[d]
        R == Store(frames[frame_of(d)], R3C, D.calls[R3C].result)
    IN  /\ D.pc = "Round3Computing"
        /\ Finished(D.calls[R3C])
        /\ IF D.calls[R3C].phase = "raised"
           THEN OvStep(d, OvFail(D, D.calls[R3C].error), frames[frame_of(d)])
           ELSE OvStep(d, [D EXCEPT !.pc = "Complete", !.returned = <<R>>], R)

NextOverlap ==
    \/ \E d \in Invocations : OvConductDebate(d)
    \/ \E d \in Invocations, c \in Calls : OvPost(d, c)
    \/ \E d \in Invocations, c \in Calls : OvRespond200(d, c)
    \/ \E d \in Invocations, c \in Calls : OvAttemptFails(d, c)
    \/ \E d \in Invocations, c \in Calls : OvBackoffElapsed(d, c)
    \/ \E d \in Invocations : OvRound1Done(d)
    \/ \E d \in Invocations : OvRound2ADone(d)
    \/ \E d \in Invocations : OvRound2BDone(d)
    \/ \E d \in Invocations : OvRound3Done(d)

SpecOverlap == Init /\ [][NextOverlap]_vars

\* the tokens only invocation d's query and replies hold
OwnToken(d) == <<TokenPool[d]>>

\* what invocation d returned, sent and raised is made of its own query
\* and its own calls' texts only
C16_OwnTextsOnly ==
    \A d \in Invocations :
        LET D == debates[d]
        IN  /\ D.pc = "Complete" =>
                D.returned = <<[c \in Calls |-> OvReply(d, c)]>>
            /\ \A c \in Calls :
                   D.calls[c].phase # "none" =>
                       /\ Contains(D.calls[c].user_message, OvQuery(d))
                       /\ \A e \in Invocations \ {d} :
                              ~Contains(D.calls[c].user_message, OwnToken(e))
            /\ D.pc = "Failed" =>
                   \E c \in Calls :
                       /\ D.calls[c].phase = "raised"
                       /\ D.raised = DebateFailedMessage(D.calls[c].error)
            /\ D.pc # "Failed" => D.raised = EmptyStr

\* a step of one invocation leaves the other invocation and its responses
\* as they were
C16_StepsOfOneOnly ==
    \A d \in Invocations :
        debates'[d] # debates[d] =>
            \A e \in Invocations \ {d} : debates'[e] = debates[e] /\ frames'[e] = frames[e]

\* C16: debates share no mutable state: with two invocations of
\* conduct_debate on one orchestrator, overlapping or one after the other,
\* each result holds exactly the texts its own calls returned, each prompt
\* only its own query and texts, an invocation fails only by a call of its
\* own, and no step of one invocation changes anything of the other.
C16_NoSharedState == []C16_OwnTextsOnly /\ [][C16_StepsOfOneOnly]_vars

C16_Witness ==
    /\ debates[1].pc = "Failed"
    /\ debates[1].calls[R2A].phase = "raised"
    /\ debates[2].pc = "Complete"
    /\ debates[2].overlapped
    /\ debates[2].calls[R1B].requests = 3

----------------------------------------------------------------------------
(* The retry loop seen from a call that returns.                           *)

\* the sleeps of a call whose attempts so far number k: 1, 2, ... up to k-1
SleepsBefore(c, k) ==
    /\ Len(calls[c].sleeps) = k - 1
    /\ \A i \in DOMAIN calls[c].sleeps : calls[c].sleeps[i] = Pow2(i - 1)

\* a call that is at its attempt k, or that ended with it, has made k
\* requests and slept k-1 times: no sleep before the first attempt, none
\* after the last
C27_RequestsAndSleeps ==
    \A c \in Calls :
        /\ calls[c].phase \in {"inflight", "returned", "raised"} =>
               /\ calls[c].requests = calls[c].attempt + 1
               /\ calls[c].requests \in 1..max_retries
               /\ SleepsBefore(c, calls[c].requests)
        /\ calls[c].phase = "raised" => calls[c].requests = max_retries

\* the step in which an attempt gets its success response ends the call
\* with that attempt: no request and no sleep is added, and the call never
\* runs again
C27_ReturnsAtOnce ==
    \A c \in Calls :
        /\ (calls[c].phase # "returned" /\ calls'[c].phase = "returned") =>
               /\ calls[c].phase = "inflight"
               /\ calls'[c].requests = calls[c].requests
               /\ calls'[c].sleeps = calls[c].sleeps
               /\ calls'[c].attempt = calls[c].attempt
        /\ calls[c].phase = "returned" => calls'[c] = calls[c]

\* C27: when attempt k of a call gets a success response, _call_model
\* returns at once: exactly k requests were made and exactly k-1 sleeps
\* (1, then 2) were taken, none before the first attempt and none after the
\* last failed one.
C27_SuccessAtAttemptK == []C27_RequestsAndSleeps /\ [][C27_ReturnsAtOnce]_vars

C27_Witness ==
    /\ calls[R1A].phase = "returned"
    /\ calls[R1A].requests = 1
    /\ calls[R1A].sleeps = <<>>
    /\ calls[R1B].phase = "returned"
    /\ calls[R1B].requests = 3
    /\ calls[R1B].sleeps = <<1, 2>>
    /\ calls[R2A].phase = "returned"
    /\ calls[R2A].requests = 2

----------------------------------------------------------------------------
(* Why a debate fails.                                                     *)

\* C28: conduct_debate fails only if one of its calls exhausted all of its
\* attempts: a debate whose calls so far all got a success response,
\* whatever content it carried (empty and null included), has not failed.
C28_FailsOnlyByExhaustedCall ==
    pc = "Failed" => \E c \in Calls : Exhausted(c)

----------------------------------------------------------------------------
(* ui.py: CouncilUI.process_query, an async generator around one call of   *)
(* conduct_debate. Each message it yields is one element of `yielded`.     *)

\* str.strip(): leading and trailing whitespace removed
Whitespace == {" ", "\n", "\t"}

RECURSIVE lstrip(_)
lstrip(s) == IF s # <<>> /\ Head(s) \in Whitespace THEN lstrip(Tail(s)) ELSE s

RECURSIVE rstrip(_)
rstrip(s) ==
    IF s # <<>> /\ s[Len(s)] \in Whitespace THEN rstrip(SubSeq(s, 1, Len(s) - 1)) ELSE s

\* Mutant of strip: the query is tested as it was typed.
strip_nothing(s) == s

strip(s) == rstrip(lstrip(s))

\* the three kinds of message process_query yields
EnterQuestionMessage == <<"Please enter a question or topic for the council to debate.">>

StatusMessage ==
    <<" Initializing LLM Council...\n\n Round 1: Council members analyzing independently...">>

\* Mutant of ui_error_message: the exception's text is left out.
ui_error_message_without_cause(e, config) ==
    <<" Error: ">>
        \o <<"\n\n**Troubleshooting Steps:**\n", "\n**Configuration Status:**\n">>
        \o <<"- Endpoint: ">> \o Str(config.project_endpoint) \o <<"\n">>
        \o <<"- Member A Model: ">> \o Str(config.member_a.deployment_name) \o <<"\n">>
        \o <<"- Member B Model: ">> \o Str(config.member_b.deployment_name) \o <<"\n">>
        \o <<"- Chair Model: ">> \o Str(config.chair.deployment_name) \o <<"\n">>
        \o <<"- Authentication: ", IF truthy(config.api_key) THEN "API Key" ELSE "Azure CLI", "\n">>

\* error_message = f""" Error: {str(e)} ... """
ui_error_message(e, config) ==
    <<" Error: ">> \o e
        \o <<"\n\n**Troubleshooting Steps:**\n", "\n**Configuration Status:**\n">>
        \o <<"- Endpoint: ">> \o Str(config.project_endpoint) \o <<"\n">>
        \o <<"- Member A Model: ">> \o Str(config.member_a.deployment_name) \o <<"\n">>
        \o <<"- Member B Model: ">> \o Str(config.member_b.deployment_name) \o <<"\n">>
        \o <<"- Chair Model: ">> \o Str(config.chair.deployment_name) \o <<"\n">>
        \o <<"- Authentication: ", IF truthy(config.api_key) THEN "API Key" ELSE "Azure CLI", "\n">>

\* Mutant of yield_status: the status message is yielded twice.
yield_status_twice(y) == Append(Append(y, StatusMessage), StatusMessage)

\* yield " Initializing LLM Council..."
yield_status(y) == Append(y, StatusMessage)

\* the queries a user submits: a question, nothing, blanks
UIQueries == {OneQuery, EmptyStr, <<" ", "\n">>}

\* CouncilUI(): self.config = get_config(); DebateOrchestrator(self.config).
\* The orchestrator holds the object the UI holds.
UIConstruct ==
    /\ ui_pc = "Idle"
    /\ self_config = <<>>
    /\ Construct
    /\ UNCHANGED <<debate_vars, ui_vars, outside_ui>>

\* process_query(user_query) up to its first yield
UIProcessQuery(query) ==
    /\ ui_pc = "Idle"
    /\ self_config # <<>>
    /\ ui_query' = query
    /\ IF strip(query) = EmptyStr
       THEN /\ yielded' = Append(yielded, EnterQuestionMessage)
            /\ ui_pc' = "Done"
       ELSE /\ yielded' = yield_status(yielded)
            /\ ui_pc' = "Status"
    /\ UNCHANGED <<debate_vars, config_vars, outside_ui>>

\* history = history or []
or_empty(h) == IF h = NoneValue \/ h = <<>> THEN <<>> ELSE h

\* one entry of the chat history
Entry(role, content) == [role |-> role, content |-> content]

\* the histories Gradio hands to user_submit: none, an empty one, and one
\* with an earlier exchange
Histories ==
    {NoneValue, <<>>, <<Entry("user", OneQuery), Entry("assistant", OneText)>>}

\* Mutant of take_response: the first response is kept.
take_first_response(current, response) ==
    IF current = EmptyStr THEN response ELSE current

\* async for response in self.process_query(...): current_response = response
take_response(current, response) == response

\* user_submit(user_message, history) up to the first response of
\* process_query
UserSubmit(user_message, hist) ==
    /\ submit_pc = "Idle"
    /\ submit_pc' = "Iterating"
    /\ history_in' = hist
    /\ history' = Append(or_empty(hist), Entry("user", user_message))
    /\ UIProcessQuery(user_message)
    /\ current_response' = take_response(EmptyStr, yielded'[Len(yielded')])

\* the generator is resumed: await self.orchestrator.conduct_debate(user_query)
UIConductDebate ==
    /\ ui_pc = "Status"
    /\ ui_pc' = "Awaiting"
    /\ ConductDebate(ui_query)
    /\ UNCHANGED <<ui_query, yielded, submit_vars, config_vars, outside_ui>>

\* conduct_debate returned: yield format_debate_output(responses, self.config)
UIYieldOutput ==
    /\ ui_pc = "Awaiting"
    /\ pc = "Complete"
    /\ ui_pc' = "Done"
    /\ yielded' = Append(yielded, format_debate_output(returned[1], self_config[1]))
    /\ current_response' = take_response(current_response, yielded'[Len(yielded')])
    /\ UNCHANGED <<ui_query, submit_pc, history_in, history>>
    /\ UNCHANGED <<debate_vars, config_vars, outside_ui>>

\* conduct_debate raised: except Exception as e: yield error_message
UIYieldError ==
    /\ ui_pc = "Awaiting"
    /\ pc = "Failed"
    /\ ui_pc' = "Done"
    /\ yielded' = Append(yielded, ui_error_message(raised, self_config[1]))
    /\ current_response' = take_response(current_response, yielded'[Len(yielded')])
    /\ UNCHANGED <<ui_query, submit_pc, history_in, history>>
    /\ UNCHANGED <<debate_vars, config_vars, outside_ui>>

\* the generator is exhausted: history.append(assistant); return "", history
UserSubmitReturns ==
    /\ submit_pc = "Iterating"
    /\ ui_pc = "Done"
    /\ submit_pc' = "Returned"
    /\ history' = Append(history, Entry("assistant", current_response))
    /\ UNCHANGED <<ui_pc, ui_query, yielded, history_in, current_response>>
    /\ UNCHANGED <<debate_vars, config_vars, outside_ui>>

NextUI ==
    \/ UIConstruct
    \/ \E query \in UIQueries, hist \in Histories : UserSubmit(query, hist)
    \/ UIConductDebate
    \/ \E c \in Calls : Post(c) /\ UNCHANGED outside_debate
    \/ \E c \in Calls, content \in {OneText, NoneValue} :
           Respond200(c, content) /\ UNCHANGED outside_debate
    \/ \E c \in Calls, f \in OneFailurePerKind :
           AttemptFails(c, f) /\ UNCHANGED outside_debate
    \/ \E c \in Calls : BackoffElapsed(c) /\ UNCHANGED outside_debate
    \/ Round1Done /\ UNCHANGED outside_debate
    \/ Round2ADone /\ UNCHANGED outside_debate
    \/ Round2BDone /\ UNCHANGED outside_debate
    \/ Round3Done /\ UNCHANGED outside_debate
    \/ UIYieldOutput
    \/ UIYieldError
    \/ UserSubmitReturns

SpecUI == Init /\ [][NextUI]_vars

----------------------------------------------------------------------------
\* how often process_query has yielded the status message
StatusCount == Cardinality({i \in DOMAIN yielded : yielded[i] = StatusMessage})

\* the last message of a finished submission: the formatted output or the
\* error message
FinalMessage(m) ==
    \/ pc = "Complete" /\ m = format_debate_output(returned[1], self_config[1])
    \/ pc = "Failed" /\ m = ui_error_message(raised, self_config[1])

\* C21: for a non-empty query process_query yields the status message
\* exactly once, as its first message and before any model request is
\* issued; the only message after it is the final formatted output or the
\* error message.
C21_StatusOnceBeforeRound1 ==
    /\ (\E c \in Calls : calls[c].requests > 0) => ui_pc \in {"Awaiting", "Done"}
    /\ (ui_pc # "Idle" /\ strip(ui_query) # EmptyStr) =>
           /\ StatusCount = 1
           /\ yielded[1] = StatusMessage
           /\ ui_pc \in {"Status", "Awaiting"} => Len(yielded) = 1
           /\ ui_pc = "Done" => Len(yielded) = 2 /\ FinalMessage(yielded[2])

C21_Witness ==
    /\ ui_pc = "Done"
    /\ ui_query = OneQuery
    /\ pc = "Complete"
    /\ Len(yielded) = 2
    /\ \A c \in Calls : calls[c].requests > 0

----------------------------------------------------------------------------
\* the call whose failure conduct_debate raised: of two failed round-1
\* calls the first argument of gather, later the call that was awaited
RaisedCall == CHOOSE c \in Calls : Exhausted(c) /\ (c = R1B => ~Exhausted(R1A))

\* the debate failed because a call ran out of attempts
FailedByExhaustion == pc = "Failed" /\ \E c \in Calls : Exhausted(c)

\* C26: when a debate fails because a call exhausted its retries, what
\* conduct_debate raises contains that call's exhausted-retries message,
\* which contains the text of the call's last failure (a timeout has no
\* text of its own and is named by the message), and the error message the
\* UI yields for the submission contains what conduct_debate raised.
C26_CauseReachesUser ==
    FailedByExhaustion =>
        /\ Contains(raised, calls[RaisedCall].error)
        /\ calls[RaisedCall].error = ExhaustedMessage(calls[RaisedCall].last_failure)
        /\ Contains(calls[RaisedCall].error, calls[RaisedCall].last_failure.text)
        /\ calls[RaisedCall].last_failure.kind # "timeout" =>
               calls[RaisedCall].last_failure.text # EmptyStr
        /\ ui_pc = "Done" =>
               /\ Contains(yielded[Len(yielded)], raised)
               /\ Contains(yielded[Len(yielded)], calls[RaisedCall].last_failure.text)

C26_Witness ==
    /\ ui_pc = "Done"
    /\ pc = "Failed"
    /\ Succeeded(R1A)
    /\ Exhausted(R1B)
    /\ calls[R1B].last_failure.kind = "status"
    /\ Contains(yielded[2], OneErrText)

----------------------------------------------------------------------------
\* the model id of a request is the deployment its url names
ModelOf(r) == r.url[Len(Str(self_config[1].project_endpoint)) + 2]

\* request r was built from participant m's settings and prompt
CarriesSettingsOf(r, m, prompt) ==
    /\ r.system_prompt = prompt
    /\ r.temperature = m.temperature
    /\ <<ModelOf(r)>> = Str(m.deployment_name)

\* C22: every request carries the parameters of the participant it belongs
\* to: member_a's calls of rounds 1 and 2 its system prompt, temperature and
\* model id, member_b's calls member_b's, the chair's call the chair's; the
\* user message of both round-1 requests is the user's query, unchanged.
C22_RequestsCarryOwnParticipant ==
    \A c \in Calls : \A r \in {sent[c][i] : i \in DOMAIN sent[c]} :
        /\ c \in {R1A, R2A} =>
               CarriesSettingsOf(r, self_config[1].member_a, <<"MEMBER_A_PROMPT">>)
        /\ c \in {R1B, R2B} =>
               CarriesSettingsOf(r, self_config[1].member_b, <<"MEMBER_B_PROMPT">>)
        /\ c = R3C => CarriesSettingsOf(r, self_config[1].chair, <<"CHAIR_PROMPT">>)
        /\ c \in Round1Calls => r.user_message = user_query /\ user_query = OneQuery

C22_Witness ==
    /\ pc = "Complete"
    /\ \A c \in Calls : sent[c] # <<>>
    /\ ModelOf(sent[R2A][1]) # ModelOf(sent[R2B][1])
    /\ sent[R3C][1].temperature # sent[R1A][1].temperature
    /\ sent[R1A][1].user_message = OneQuery
    /\ sent[R2A][1].user_message # OneQuery

----------------------------------------------------------------------------
\* one round-1 call has run out of attempts while the other is not over
StragglerPending(c) ==
    /\ c \in Round1Calls
    /\ pc = "Round1Running"
    /\ ~Finished(calls[c])
    /\ \E d \in Round1Calls \ {c} : Exhausted(d)

\* a pending straggler is neither cancelled nor abandoned: the debate stays
\* in round 1, and the straggler keeps its attempts and goes on with them
C25_StragglerAwaited ==
    \A c \in Round1Calls :
        StragglerPending(c) =>
            /\ pc' = "Round1Running"
            /\ raised' = raised
            /\ calls'[c].phase \in {"inflight", "sleeping", "returned", "raised"}
            /\ calls'[c].requests >= calls[c].requests
            /\ calls'[c].requests <= max_retries

\* the debate that fails on a round-1 call fails with both calls over, and
\* nothing of the straggler's result is kept or returned
C25_StragglerDiscarded ==
    (pc = "Failed" /\ \E d \in Round1Calls : Exhausted(d)) =>
        /\ \A c \in Round1Calls : Finished(calls[c]) /\ calls[c].requests <= max_retries
        /\ responses = EmptyResponses
        /\ returned = <<>>

\* C25: when one round-1 call exhausts its retries while the other is
\* pending, conduct_debate does not cancel the pending call; it fails only
\* once the straggler has returned or exhausted its own attempts, at most
\* max_retries requests, and discards the result the straggler obtained.
C25_WaitsForStraggler == []C25_StragglerDiscarded /\ [][C25_StragglerAwaited]_vars

C25_Witness ==
    /\ pc = "Failed"
    /\ done_order = <<R1A, R1B>>
    /\ Exhausted(R1A)
    /\ Succeeded(R1B)
    /\ calls[R1B].requests = 3
    /\ calls[R1B].result # EmptyStr

----------------------------------------------------------------------------
\* get_config() on a set singleton returns it, whatever the environment
\* holds by then
C29_SingletonCached ==
    config_instance # <<>> =>
        \A e \in Environments :
            /\ get_config(config_instance, e).raised = EmptyStr
            /\ get_config(config_instance, e).instance = config_instance

\* get_config() after a reload_config() that returned gives what the reload
\* returned
C29_ReloadedIsCached ==
    LET reloaded == reload_config(config_instance, env)
    IN  reloaded.raised = EmptyStr =>
            /\ reloaded.instance = <<CouncilConfig(env)>>
            /\ \A e \in Environments :
                   get_config(reloaded.instance, e).instance = reloaded.instance

\* a set singleton is replaced by nothing but reload_config()
C29_OnlyReloadReplaces ==
    (config_instance # <<>> /\ config_instance' # config_instance) =>
        /\ env' = env
        /\ config_instance' = reload_config(config_instance, env).instance

\* C29: after a get_config() that returned, every later get_config()
\* returns the same instance, whatever the environment has become, until
\* reload_config() is called; after a reload_config() that returned,
\* get_config() returns the instance the reload returned.
C29_CachedUntilReload ==
    /\ []C29_SingletonCached
    /\ []C29_ReloadedIsCached
    /\ [][C29_OnlyReloadReplaces]_vars

C29_Witness ==
    /\ config_instance = <<CouncilConfig(OtherEnv)>>
    /\ config_raised = EmptyStr
    /\ env = BaseEnv
    /\ self_config = <<CouncilConfig(BaseEnv)>>

\* the singleton never holds a configuration that fails validation
C30_SingletonValid ==
    config_instance # <<>> => validate(config_instance[1]) = EmptyStr

\* a get_config() or reload_config() that raises leaves the singleton as
\* it was
C30_RaisingCallKeepsSingleton ==
    (env' = env /\ config_raised' # EmptyStr
                /\ config_raised' = load_and_validate(config_instance, env).raised)
        => config_instance' = config_instance

\* C30: a get_config() or reload_config() that raises leaves the
\* process-wide singleton exactly as it was, unset or the previous valid
\* instance, so get_config() never returns a configuration that failed
\* validation.
C30_FailedCallLeavesSingleton ==
    []C30_SingletonValid /\ [][C30_RaisingCallKeepsSingleton]_vars

----------------------------------------------------------------------------
\* app.py: the requests of both members are outstanding at the same time
AppBothOutstanding == \A c \in Round1Calls : app_calls[c].phase = "inflight"

\* app.py never has both requests outstanding: an invariant of SpecApp
AppRequestsSerial == ~AppBothOutstanding

\* C24: in app.py round 1 runs both members concurrently: once member A's
\* request is issued member B's can be issued before A's has come back, so
\* that both are outstanding and neither has returned.
C24_AppRound1Concurrent ==
    (app_pc = "Round1Running" /\ app_calls[R1A].phase = "inflight"
                              /\ app_calls[R1B].phase = "ready")
        => ENABLED (AppPost(R1B) /\ AppBothOutstanding')

----------------------------------------------------------------------------
(* The debate under the scheduling of the event loop: a task that can run  *)
(* is run, a sleep ends, and every outstanding attempt comes to an end.    *)

\* the request of c is answered, fails or times out
AttemptEnds(c) ==
    /\ \/ \E content \in {OneText, NoneValue} : Respond200(c, content)
       \/ \E f \in OneFailurePerKind : AttemptFails(c, f)
    /\ UNCHANGED outside_debate

\* the event loop runs the coroutine of c: its first post, or the post
\* after a sleep
LoopRuns(c) == (Post(c) \/ BackoffElapsed(c)) /\ UNCHANGED outside_debate

\* the event loop resumes conduct_debate when what it awaits is over
DebateResumes ==
    (Round1Done \/ Round2ADone \/ Round2BDone \/ Round3Done) /\ UNCHANGED outside_debate

NextLive ==
    \/ ConductDebate(OneQuery) /\ UNCHANGED outside_debate
    \/ \E c \in Calls : LoopRuns(c)
    \/ \E c \in Calls : AttemptEnds(c)
    \/ DebateResumes

Fairness ==
    /\ \A c \in Calls : WF_vars(LoopRuns(c))
    /\ \A c \in Calls : WF_vars(AttemptEnds(c))
    /\ WF_vars(DebateResumes)

SpecLive == Init /\ [][NextLive]_vars /\ Fairness

\* C23: if every attempt eventually responds, errors or times out, an
\* invocation of conduct_debate eventually returns a complete result or
\* fails: it neither retries nor waits forever.
C23_DebateTerminates ==
    (pc = "Round1Running") ~> ((pc = "Complete" /\ returned # <<>>) \/ pc = "Failed")

C23_Witness ==
    /\ pc = "Complete"
    /\ returned # <<>>
    /\ \A c \in Calls : calls[c].requests = max_retries

----------------------------------------------------------------------------
\* an empty query, or one of nothing but whitespace
Blank(s) == \A i \in DOMAIN s : s[i] \in Whitespace

\* C31: for an empty or whitespace-only query process_query yields the
\* 'please enter a question' message and nothing else: no status message,
\* no call of conduct_debate, no session and no model request.
C31_BlankQueryYieldsOnlyPrompt ==
    (ui_pc # "Idle" /\ Blank(ui_query)) =>
        /\ ui_pc = "Done"
        /\ yielded = <<EnterQuestionMessage>>
        /\ StatusCount = 0
        /\ pc = "Idle"
        /\ session = "none"
        /\ \A c \in Calls : calls[c] = NotCalled

C31_Witness ==
    /\ ui_pc = "Done"
    /\ ui_query = <<" ", "\n">>
    /\ Len(yielded) = 1
    /\ self_config # <<>>

----------------------------------------------------------------------------
\* the entries user_submit found in the history it was given
Before == or_empty(history_in)

\* a submission appends the user's message at once and the assistant's
\* message when process_query is exhausted; the assistant's message is the
\* last message process_query yielded, never the status message
C32_TwoEntries ==
    /\ submit_pc = "Iterating" =>
           /\ Len(history) = Len(Before) + 1
           /\ history[Len(history)] = Entry("user", ui_query)
    /\ submit_pc = "Returned" =>
           /\ Len(history) = Len(Before) + 2
           /\ SubSeq(history, 1, Len(Before)) = Before
           /\ history[Len(Before) + 1] = Entry("user", ui_query)
           /\ history[Len(history)].role = "assistant"
           /\ history[Len(history)].content = yielded[Len(yielded)]
           /\ history[Len(history)].content # StatusMessage
           /\ ~Blank(ui_query) => FinalMessage(history[Len(history)].content)

\* whatever conduct_debate did, process_query goes on to its last yield and
\* user_submit to its return: nothing is raised on the way
C32_NothingRaised ==
    /\ (ui_pc = "Awaiting" /\ pc = "Complete") => ENABLED UIYieldOutput
    /\ (ui_pc = "Awaiting" /\ pc = "Failed") => ENABLED UIYieldError
    /\ (ui_pc = "Done" /\ submit_pc = "Iterating") => ENABLED UserSubmitReturns
    /\ submit_pc = "Idle" => history = <<>>

\* C32: user_submit appends exactly two entries per submission, the user's
\* message and then one assistant message, which is the last message
\* process_query yielded (the formatted debate or the error message, not
\* the status message), and it does not raise, whether the debate
\* completes or fails.
C32_SubmitAppendsTwo == C32_TwoEntries /\ C32_NothingRaised

C32_Witness ==
    /\ submit_pc = "Returned"
    /\ pc = "Failed"
    /\ Len(history) = 4
    /\ history[4].content = ui_error_message(raised, self_config[1])

----------------------------------------------------------------------------
\* the session is open exactly while conduct_debate runs, and a call is
\* pending or posts a request only on the open session
C33_SessionFollowsDebate ==
    /\ pc = "Idle" <=> session = "none"
    /\ pc \in RunningStages <=> session = "open"
    /\ pc \in {"Complete", "Failed"} <=> session = "closed"
    /\ \A c \in Calls :
           /\ calls[c].phase \in {"ready", "inflight", "sleeping"} => session = "open"
           /\ calls[c].requests > 0 => session # "none"

\* one session per invocation: it is opened once, closed once and never
\* opened again, and each request is posted on it while it is open
C33_OneSession ==
    /\ session' # session =>
           <<session, session'>> \in {<<"none", "open">>, <<"open", "closed">>}
    /\ \A c \in Calls :
           calls'[c].requests > calls[c].requests => session = "open" /\ session' = "open"

\* C33: an invocation of conduct_debate opens exactly one HTTP session,
\* all its calls use it, the two concurrent round-1 calls together, and it
\* is closed when conduct_debate returns or raises: after a failed debate
\* no session is open.
C33_SessionClosedOnExit == []C33_SessionFollowsDebate /\ [][C33_OneSession]_vars

C33_Witness ==
    /\ pc = "Failed"
    /\ session = "closed"
    /\ Exhausted(R1A)
    /\ Exhausted(R1B)
    /\ calls[R2A].phase = "none"

----------------------------------------------------------------------------
(* _call_model as a function of max_retries: `for attempt in               *)
(* range(max_retries)` with the try and the except clauses as its body,    *)
(* the same loop in orchestrator.py and in app.py.                         *)

\* the values of max_retries a caller passes
MaxRetries == 4

\* Mutant of last_attempt: the last attempt's failure sleeps like the
\* others.
last_attempt_never(attempt, n) == FALSE

\* `attempt < max_retries - 1` is false
last_attempt(attempt, n) == ~(attempt < n - 1)

\* _call_model(..., max_retries=n) is called
CallModel(n) ==
    /\ retry_loop.pc = "none"
    /\ retry_loop' = [retry_loop EXCEPT !.pc = "top", !.max_retries = n]
    /\ UNCHANGED outside_loop

\* for attempt in range(max_retries): the next value and the request of
\* the loop body, or the end of the range, after which the function ends
\* without a return statement
LoopNext ==
    /\ retry_loop.pc = "top"
    /\ retry_loop' =
           IF retry_loop.next < retry_loop.max_retries
           THEN [retry_loop EXCEPT !.pc = "inflight", !.attempt = retry_loop.next,
                                   !.next = @ + 1]
           ELSE [retry_loop EXCEPT !.pc = "fell_out", !.result = NoneValue]
    /\ UNCHANGED outside_loop

\* return result["choices"][0]["message"]["content"]
LoopReturns(content) ==
    /\ retry_loop.pc = "inflight"
    /\ retry_loop' = [retry_loop EXCEPT !.pc = "returned", !.result = content]
    /\ UNCHANGED outside_loop

\* the except clauses: sleep, or raise after the last attempt
LoopAttemptFails(f) ==
    /\ retry_loop.pc = "inflight"
    /\ retry_loop' =
           IF last_attempt(retry_loop.attempt, retry_loop.max_retries)
           THEN [retry_loop EXCEPT !.pc = "raised", !.last_failure = f,
                    !.error = IF f.kind = "timeout"
                              THEN <<"Model timed out after ",
                                     ToString(retry_loop.max_retries), " attempts">>
                              ELSE <<"Model failed after ",
                                     ToString(retry_loop.max_retries), " attempts: ">>
                                       \o f.text]
           ELSE [retry_loop EXCEPT !.pc = "sleeping", !.last_failure = f,
                    !.sleeps = Append(@, wait_time(retry_loop.attempt))]
    /\ UNCHANGED outside_loop

\* asyncio.sleep(wait_time) is over: back to the head of the loop
LoopSleepOver ==
    /\ retry_loop.pc = "sleeping"
    /\ retry_loop' = [retry_loop EXCEPT !.pc = "top"]
    /\ UNCHANGED outside_loop

NextLoop ==
    \/ \E n \in 1..MaxRetries : CallModel(n)
    \/ LoopNext
    \/ \E content \in {OneText, EmptyStr, NoneValue} : LoopReturns(content)
    \/ \E f \in OneFailurePerKind : LoopAttemptFails(f)
    \/ LoopSleepOver

SpecLoop == Init /\ [][NextLoop]_vars

\* C35: for every max_retries >= 1 _call_model ends by returning the
\* content of a success response or by raising: the loop is never left at
\* the end of its range, which would return None without a return
\* statement; the exception is raised by the failure of attempt
\* max_retries - 1 and by no other.
C35_ReturnsOrRaises ==
    /\ retry_loop.pc # "fell_out"
    /\ retry_loop.pc = "top" => retry_loop.next < retry_loop.max_retries
    /\ retry_loop.pc \in {"inflight", "sleeping", "returned", "raised"} =>
           retry_loop.attempt < retry_loop.max_retries
    /\ retry_loop.pc = "raised" =>
           /\ retry_loop.attempt = retry_loop.max_retries - 1
           /\ Len(retry_loop.sleeps) = retry_loop.max_retries - 1
           /\ retry_loop.error # EmptyStr
           /\ Contains(retry_loop.error, retry_loop.last_failure.text)
    /\ retry_loop.pc = "returned" =>
           /\ retry_loop.result \in {OneText, EmptyStr, NoneValue}
           /\ Len(retry_loop.sleeps) = retry_loop.attempt
    /\ retry_loop.pc = "sleeping" => retry_loop.next < retry_loop.max_retries

C35_Witness ==
    /\ retry_loop.pc = "raised"
    /\ retry_loop.max_retries = 1
    /\ retry_loop.sleeps = <<>>

----------------------------------------------------------------------------
(* app.py's LLMCouncil.conduct_debate next to DebateOrchestrator's: the    *)
(* orchestrator's debate runs first, then the council's debate meets the   *)
(* same outcome at every attempt the orchestrator made, and any outcome at *)
(* an attempt the orchestrator never made.                                 *)

\* the content of a success response, and what fails an attempt
AgreeContents == {OneText, EmptyStr, NoneValue}

AgreeFailures == {TimeoutFailure, StatusFailure("500", OneErrText)}

\* what the endpoint does to one attempt
Outcomes ==
    {[ok |-> TRUE, content |-> t, failure |-> NoFailure] : t \in AgreeContents}
        \cup {[ok |-> FALSE, content |-> EmptyStr, failure |-> f] : f \in AgreeFailures}

\* the outcomes attempt number `attempt` of call c can have for the
\* council: the one the orchestrator's attempt had, if it made it
OutcomesOf(c, attempt) ==
    IF attempt + 1 > calls[c].requests
    THEN Outcomes
    ELSE IF attempt + 1 = calls[c].requests /\ calls[c].phase = "returned"
    THEN {o \in Outcomes : o.ok /\ o.content = calls[c].result}
    ELSE IF attempt + 1 = calls[c].requests
    THEN {o \in Outcomes : ~o.ok /\ o.failure = calls[c].last_failure}
    ELSE {o \in Outcomes : ~o.ok /\ o.failure = StatusFailure("500", OneErrText)}

\* app.py's f-strings of rounds 2 and 3
critique_prompt_a(query, resp) ==
    <<"Original Query: ">> \o Str(query)
        \o <<"\n\nCouncil Member B's Analysis:\n">> \o Str(resp[R1B])
        \o <<"\n\nNow provide your critique, counterarguments, or supporting arguments to Member B's analysis.">>

critique_prompt_b(query, resp) ==
    <<"Original Query: ">> \o Str(query)
        \o <<"\n\nCouncil Member A's Initial Analysis:\n">> \o Str(resp[R1A])
        \o <<"\n\nCouncil Member A's Critique of Your Analysis:\n">> \o Str(resp[R2A])
        \o <<"\n\nNow respond: critique Member A's points and defend or refine your position.">>

chair_prompt(query, resp) ==
    <<"Original Query: ">> \o Str(query)
        \o <<"\n\n=== FULL DEBATE TRANSCRIPT ===\n\nROUND 1 - Council Member A (Analytical):\n">>
        \o Str(resp[R1A])
        \o <<"\n\nROUND 1 - Council Member B (Critical):\n">> \o Str(resp[R1B])
        \o <<"\n\nROUND 2 - Member A's Critique:\n">> \o Str(resp[R2A])
        \o <<"\n\nROUND 2 - Member B's Response:\n">> \o Str(resp[R2B])
        \o <<"\n\n=== END TRANSCRIPT ===\n\nNow provide your structured final verdict following the format specified in your instructions.">>

\* app.py's except clause of _call_model: sleep, or raise after the last
\* attempt
CouncilAfterFailure(c, f) ==
    IF c.attempt < max_retries - 1
    THEN [c EXCEPT !.phase = "sleeping", !.sleeps = Append(@, Pow2(c.attempt))]
    ELSE [c EXCEPT !.phase = "raised",
                   !.error = <<"Model failed after ", ToString(max_retries), " attempts: ">>
                                 \o f.text,
                   !.last_failure = f]

\* Mutant of CouncilRound1Error: only member A's result is checked.
CouncilRound1ErrorOnlyFirst(results) ==
    IF results[R1A].phase = "raised" THEN R1A ELSE "none"

\* if isinstance(round1_results[0], Exception): raise ...; then [1]
CouncilRound1Error(results) ==
    IF results[R1A].phase = "raised" THEN R1A
    ELSE IF results[R1B].phase = "raised" THEN R1B
    ELSE "none"

\* what a round-1 slot is assigned: the call's text, or its exception
CouncilRound1Result(c) == IF c.phase = "raised" THEN c.error ELSE c.result

\* LLMCouncil.conduct_debate(user_query) up to `await asyncio.gather(...)`,
\* on the query the orchestrator was given
CouncilConductDebate ==
    /\ pc \in {"Complete", "Failed"}
    /\ council.pc = "Idle"
    /\ council' = [council EXCEPT
                      !.pc = "Round1Running",
                      !.calls = [@ EXCEPT ![R1A] = Scheduled(user_query),
                                          ![R1B] = Scheduled(user_query)]]
    /\ UNCHANGED <<debate_vars, outside_council>>

\* gather starts member A's coroutine first
CouncilRunnable(c) == c = R1B => council.calls[R1A].requests > 0

\* one attempt of c: client.chat.completions.create(...) does not yield, so
\* the request and its outcome are one step of the event loop
CouncilAttempt(c, o) ==
    /\ council.calls[c].phase = "ready"
    /\ CouncilRunnable(c)
    /\ o \in OutcomesOf(c, council.calls[c].attempt)
    /\ council' = [council EXCEPT !.calls[c] =
                      IF o.ok
                      THEN [@ EXCEPT !.phase = "returned", !.requests = @ + 1,
                                     !.result = o.content]
                      ELSE CouncilAfterFailure([@ EXCEPT !.requests = @ + 1], o.failure)]
    /\ UNCHANGED <<debate_vars, outside_council>>

\* asyncio.sleep(wait_time) is over: the next value of the loop variable
CouncilSleepOver(c) ==
    /\ council.calls[c].phase = "sleeping"
    /\ council' = [council EXCEPT !.calls[c] =
                      [@ EXCEPT !.phase = "ready", !.attempt = @ + 1]]
    /\ UNCHANGED <<debate_vars, outside_council>>

\* except Exception as e: raise Exception(f"Debate execution failed: {str(e)}")
CouncilFail(e) ==
    [council EXCEPT !.pc = "Failed", !.raised = <<"Debate execution failed: ">> \o e]

\* responses[key] = the awaited text, then the next call is made
CouncilGoOn(stage, resp, c, user_message) ==
    [council EXCEPT !.pc = stage, !.responses = resp,
                    !.calls[c] = Scheduled(user_message)]

\* gather is over: the error check, the two assignments, round 2's first
\* call
CouncilRound1Done ==
    /\ council.pc = "Round1Running"
    /\ \A c \in Round1Calls : Finished(council.calls[c])
    /\ council' =
           IF CouncilRound1Error(council.calls) # "none"
           THEN CouncilFail(council.calls[CouncilRound1Error(council.calls)].error)
           ELSE LET resp == [council.responses EXCEPT
                                ![R1A] = CouncilRound1Result(council.calls[R1A]),
                                ![R1B] = CouncilRound1Result(council.calls[R1B])]
                IN CouncilGoOn("Round2AComputing", resp, R2A,
                               critique_prompt_a(user_query, resp))
    /\ UNCHANGED <<debate_vars, outside_council>>

CouncilRound2ADone ==
    /\ council.pc = "Round2AComputing"
    /\ Finished(council.calls[R2A])
    /\ council' =
           IF council.calls[R2A].phase = "raised"
           THEN CouncilFail(council.calls[R2A].error)
           ELSE LET resp == [council.responses EXCEPT ![R2A] = council.calls[R2A].result]
                IN CouncilGoOn("Round2BComputing", resp, R2B,
                               critique_prompt_b(user_query, resp))
    /\ UNCHANGED <<debate_vars, outside_council>>

CouncilRound2BDone ==
    /\ council.pc = "Round2BComputing"
    /\ Finished(council.calls[R2B])
    /\ council' =
           IF council.calls[R2B].phase = "raised"
           THEN CouncilFail(council.calls[R2B].error)
           ELSE LET resp == [council.responses EXCEPT ![R2B] = council.calls[R2B].result]
                IN CouncilGoOn("Round3Computing", resp, R3C, chair_prompt(user_query, resp))
    /\ UNCHANGED <<debate_vars, outside_council>>

\* the chair's call is over: return responses
CouncilRound3Done ==
    /\ council.pc = "Round3Computing"
    /\ Finished(council.calls[R3C])
    /\ council' =
           IF council.calls[R3C].phase = "raised"
           THEN CouncilFail(council.calls[R3C].error)
           ELSE LET resp == [council.responses EXCEPT ![R3C] = council.calls[R3C].result]
                IN [council EXCEPT !.pc = "Complete", !.responses = resp,
                                   !.returned = <<resp>>]
    /\ UNCHANGED <<debate_vars, outside_council>>

NextAgree ==
    \/ ConductDebate(OneQuery) /\ UNCHANGED outside_debate
    \/ \E c \in Calls : Post(c) /\ UNCHANGED outside_debate
    \/ \E c \in Calls, content \in AgreeContents :
           Respond200(c, content) /\ UNCHANGED outside_debate
    \/ \E c \in Calls, f \in AgreeFailures : AttemptFails(c, f) /\ UNCHANGED outside_debate
    \/ \E c \in Calls : BackoffElapsed(c) /\ UNCHANGED outside_debate
    \/ Round1Done /\ UNCHANGED outside_debate
    \/ Round2ADone /\ UNCHANGED outside_debate
    \/ Round2BDone /\ UNCHANGED outside_debate
    \/ Round3Done /\ UNCHANGED outside_debate
    \/ CouncilConductDebate
    \/ \E c \in Calls, o \in Outcomes : CouncilAttempt(c, o)
    \/ \E c \in Calls : CouncilSleepOver(c)
    \/ CouncilRound1Done
    \/ CouncilRound2ADone
    \/ CouncilRound2BDone
    \/ CouncilRound3Done

SpecAgree == Init /\ [][NextAgree]_vars

\* both debates are over
BothDone == pc \in {"Complete", "Failed"} /\ council.pc \in {"Complete", "Failed"}

\* every success response carried a text
TextsOnly ==
    \A c \in Calls : calls[c].result # NoneValue /\ council.calls[c].result # NoneValue

\* the two debates ended alike: the same calls were made, each with the
\* same number of requests and the same end, and the same result returned
SameEnd ==
    /\ council.pc = pc
    /\ \A c \in Calls :
           /\ council.calls[c].requests = calls[c].requests
           /\ council.calls[c].phase = calls[c].phase
           /\ council.calls[c].result = calls[c].result
    /\ council.returned = returned
    /\ pc = "Complete" => returned # <<>> /\ DOMAIN returned[1] = Calls
    /\ pc = "Failed" => \E c \in Calls : Exhausted(c) /\ council.calls[c].phase = "raised"

AgreeOnAnyContent == BothDone => SameEnd

====
